---- MODULE Spec2Model ----
(***************************************************************************)
(* Model of the client-side communication layer of supertrack-ai:          *)
(*   WebSocketClient      (lib/websocket.ts, src/unnamed/part_001)         *)
(*   NotificationService  (src/frontend/lib/notifications.ts)              *)
(*   ApiClient            (src/frontend/lib/api.ts)                        *)
(*   SSEClient            (src/frontend/lib/sse.ts)                        *)
(* The specifications share the variables; each drives one component:      *)
(*   SocketSpec, DispatchSpec            one WebSocketClient               *)
(*   CacheSpec, StatusSpec, MarkSpec,    a NotificationService and the     *)
(*   CopySpec, ReceiptSpec, FrameSpec,   socket clients it creates         *)
(*   ConfigSpec                                                            *)
(*   ApiSpec, ApiLiveSpec, AuthSpec      an ApiClient and its requests     *)
(*   StreamSpec                          one SSEClient and its streams     *)
(***************************************************************************)
EXTENDS Integers, Sequences, FiniteSets, TLC

(* ------------------------------ bounds --------------------------------- *)
\* transports one WebSocketClient may create in SocketSpec
MaxTransports == 2
\* largest options.reconnectAttempts the owner configures in SocketSpec
MaxAttemptsOpt == 2
\* messages transmitted by send() in SocketSpec
MaxSends == 1
\* socket clients the NotificationService may create in CacheSpec
CacheClients == 1
\* transports created in CacheSpec
CacheTransports == 2
\* notification messages received in CacheSpec (more than cacheLimit)
MaxArrivals == 55
\* markAsRead / markAllAsRead calls made in CacheSpec
CacheMarks == 1
\* markAsRead(id) is called with id in 1..MaxMarkId
MaxMarkId == 1
\* logical requests issued in ApiSpec
MaxRequests == 2
\* largest maxRetries the ApiClient is configured with in ApiSpec
MaxRetriesOpt == 2
\* transports the WebSocketClient may create in DispatchSpec
DispatchTransports == 2
\* notification messages received in MarkSpec and CopySpec
MarkArrivals == 2
\* markAsRead / markAllAsRead calls made in MarkSpec
MarkCalls == 2
\* socket clients the NotificationService may create in StatusSpec
StatusClients == 2
\* transports created in StatusSpec
StatusTransports == 2
\* notification messages received in StatusSpec
StatusArrivals == 1
\* EventSource objects the SSEClient may create in StreamSpec
MaxSources == 2
\* invocations of the SSEClient's callbacks recorded in StreamSpec
MaxCalls == 3
\* notification messages received in ReceiptSpec
ReceiptArrivals == 2
\* socket clients the NotificationService may create in FrameSpec
FrameClients == 2
\* transports created in FrameSpec
FrameTransports == 2
\* notification messages received in FrameSpec
FrameArrivals == 1
\* markAsRead / markAllAsRead calls made in FrameSpec
FrameMarks == 1
\* socket clients the NotificationService may create in ConfigSpec
ConfigClients == 3
\* transports created in ConfigSpec
ConfigTransports == 3

(* ------------------------- program constants --------------------------- *)
\* part_001:225  (this.options.reconnectAttempts || 5)
DefaultReconnectAttempts == 5
\* notifications.ts:57  private cacheLimit = 50
cacheLimit == 50
\* api.ts:6  const MAX_RETRIES = 3
MAX_RETRIES == 3
\* api.ts:7  const RETRY_DELAY = 1000
RETRY_DELAY == 1000

(* ------------------------------- state --------------------------------- *)
VARIABLES
    clients,     \* WebSocketClient instances: their private fields
    transports,  \* every WebSocket object created so far, in creation order
    wire,        \* messages handed to WebSocket.send, in order
    lastOp,      \* the operation or event handled last, and what it returned
    track,       \* per client: history needed to state the claims
    svc,         \* the NotificationService instance: its private fields
    arrivals,    \* notification messages received so far
    marks,       \* markAsRead and markAllAsRead calls made so far
    api,         \* the ApiClient instance: given and stored configuration
    requests,    \* the logical requests issued through the ApiClient
    sse,         \* the SSEClient instance: its private fields
    sources,     \* every EventSource object created so far, in creation order
    callbacks    \* invocations of the owner's callbacks (the SSEClient's
                 \* options, handlers.onNotification), in order

sockVars == <<clients, transports, wire, lastOp, track>>
sockState == <<clients, transports, wire, track>>
notifVars == <<svc, arrivals, marks>>
apiVars == <<api, requests>>
sseVars == <<sse, sources, callbacks>>

vars == <<clients, transports, wire, lastOp, track, svc, arrivals, marks,
          api, requests, sse, sources, callbacks>>

(* --------------------------- WebSocket object -------------------------- *)
\* The browser WebSocket created at part_001:62. closeDelivered: its close
\* event has been dispatched (after it the object delivers nothing more).
\* promise: the state of the promise of the connect() call that created it
\* (part_001:60).
NewTransport(c) ==
    [owner |-> c, readyState |-> "CONNECTING", closeDelivered |-> FALSE,
     wasOpen |-> FALSE, promise |-> "pending"]

\* resolve(this.socket) of part_001:73
resolvePromise(t) ==
    [t EXCEPT !.promise = IF @ = "pending" THEN "resolved" ELSE @]

\* the reject of part_001:96-99, called only while the client is connecting
rejectPromise(t, cl) ==
    [t EXCEPT !.promise = IF cl.isConnecting /\ @ = "pending"
                          THEN "rejected" ELSE @]

\* WebSocket.close(code, reason) as called at part_001:155: an invalid code
\* throws and leaves the object as it is; otherwise a connecting or open
\* object starts closing.
socketClose(t, throws) ==
    IF ~throws /\ t.readyState \in {"CONNECTING", "OPEN"}
    THEN [t EXCEPT !.readyState = "CLOSING"]
    ELSE t

(* --------------------------- WebSocketClient --------------------------- *)
\* Fields of a freshly constructed client (part_001:17-33).
\* messageHandlers is the Map of part_001:20: its keys are the registered
\* types, a value is the Set of handlers in insertion order.
EmptyMap == [type \in {} |-> <<>>]

NewClient(attempts, urlOk) ==
    [socket |-> 0, reconnectCount |-> 0, reconnectTimer |-> FALSE,
     isConnecting |-> FALSE, manualClose |-> FALSE,
     optAttempts |-> attempts, urlOk |-> urlOk,
     messageHandlers |-> EmptyMap]

\* this.options.reconnectAttempts || 5   (part_001:225)
maxReconnectAttempts(cl) ==
    IF cl.optAttempts = 0 THEN DefaultReconnectAttempts ELSE cl.optAttempts

\* attemptReconnect() (part_001:220-241), up to the setTimeout call.
attemptReconnect(cl) ==
    IF cl.manualClose \/ cl.isConnecting \/ cl.reconnectTimer THEN cl
    ELSE IF cl.reconnectCount >= maxReconnectAttempts(cl) THEN cl
    ELSE [cl EXCEPT !.reconnectCount = @ + 1, !.reconnectTimer = TRUE]

\* socket.onopen (part_001:65-74)
onopen(cl) == [cl EXCEPT !.isConnecting = FALSE, !.reconnectCount = 0]

\* socket.onclose (part_001:77-88)
onclose(cl) ==
    LET c1 == [cl EXCEPT !.isConnecting = FALSE]
    IN  IF ~c1.manualClose THEN attemptReconnect(c1) ELSE c1

\* mutant of onerror: a failed attempt also resets the reconnect counter
onerror_resetsCount(cl) ==
    IF cl.isConnecting
    THEN [cl EXCEPT !.isConnecting = FALSE, !.reconnectCount = 0] ELSE cl

\* socket.onerror (part_001:91-100)
onerror(cl) ==
    IF cl.isConnecting THEN [cl EXCEPT !.isConnecting = FALSE] ELSE cl

\* first guard of connect() (part_001:39)
socketActive(cl, ts) ==
    cl.socket # 0 /\ ts[cl.socket].readyState \in {"OPEN", "CONNECTING"}

\* connect() (part_001:38-140). Result: the clients and transports after the
\* call, and the returned promise: "resolved" (Promise.resolve(this.socket)),
\* "polling" (the setInterval promise), "pending" (the promise of the new
\* transport) or "rejected" (the constructor threw).
connect(cs, ts, c) ==
    LET cl == cs[c] IN
    IF socketActive(cl, ts)
    THEN [clients |-> cs, transports |-> ts, outcome |-> "resolved"]
    ELSE IF cl.isConnecting
    THEN [clients |-> cs, transports |-> ts, outcome |-> "polling"]
    ELSE IF ~cl.urlOk
    THEN [clients |-> [cs EXCEPT ![c] = [cl EXCEPT !.isConnecting = FALSE,
                                                   !.manualClose = FALSE]],
          transports |-> ts, outcome |-> "rejected"]
    ELSE [clients |-> [cs EXCEPT ![c] = [cl EXCEPT !.isConnecting = TRUE,
                                                   !.manualClose = FALSE,
                                                   !.socket = Len(ts) + 1]],
          transports |-> Append(ts, NewTransport(c)), outcome |-> "pending"]

\* mutant of closeFields: close() leaves a pending reconnect timer running
closeFields_keepsTimer(cl) ==
    [cl EXCEPT !.manualClose = TRUE, !.socket = 0, !.isConnecting = FALSE]

\* close(code, reason) (part_001:145-164): the client's fields afterwards
closeFields(cl) ==
    [cl EXCEPT !.manualClose = TRUE, !.reconnectTimer = FALSE,
               !.socket = 0, !.isConnecting = FALSE]

\* close(code, reason): the transports afterwards
closeTransports(cl, ts, throws) ==
    IF cl.socket # 0
    THEN [ts EXCEPT ![cl.socket] = socketClose(@, throws)]
    ELSE ts

\* isConnected() (part_001:213-215)
isConnected(cl, ts) == cl.socket # 0 /\ ts[cl.socket].readyState = "OPEN"

\* message built by send() (part_001:175-177): JSON.stringify throws on a
\* cyclic value; a string without a type goes out as it is.
Payloads == {"str", "cyclic"}
serialize(data, typed) ==
    IF typed
    THEN IF data = "cyclic" THEN [ok |-> FALSE, msg |-> <<>>]
         ELSE [ok |-> TRUE, msg |-> <<"json", "envelope", data>>]
    ELSE IF data = "cyclic" THEN [ok |-> FALSE, msg |-> <<>>]
    ELSE [ok |-> TRUE, msg |-> <<"raw", data>>]

\* send(data, type) (part_001:169-185): the returned boolean
sendResult(cl, ts, data, typed) ==
    IF ~isConnected(cl, ts) THEN FALSE
    ELSE serialize(data, typed).ok

\* mutant of sendWire: send() does not look at the ready state
sendWire_anyState(cl, ts, w, data, typed) ==
    IF cl.socket # 0 /\ serialize(data, typed).ok
    THEN Append(w, serialize(data, typed).msg)
    ELSE w

\* send(data, type): what has been handed to the transport afterwards
sendWire(cl, ts, w, data, typed) ==
    IF isConnected(cl, ts) /\ serialize(data, typed).ok
    THEN Append(w, serialize(data, typed).msg)
    ELSE w

(* ------------------- WebSocketClient: handler registry ---------------- *)
\* The handlers a caller registers: h1 and h2 return, hx throws when invoked.
Handlers == {"h1", "h2", "hx"}
Throwing == {"hx"}
\* The types handlers are registered under.
Types == {"message", "foo"}

\* messageHandlers.has(type), messageHandlers.get(type)
has(reg, type) == type \in DOMAIN reg
get(reg, type) == IF has(reg, type) THEN reg[type] ELSE <<>>

Range(seq) == {seq[i] : i \in 1..Len(seq)}

\* Set.add(handler), Set.delete(handler)
setAdd(hs, handler) == IF handler \in Range(hs) THEN hs ELSE Append(hs, handler)
setDelete(hs, handler) == SelectSeq(hs, LAMBDA h : h # handler)

\* on(type, handler) (part_001:190-196): the registry afterwards
on(reg, type, handler) ==
    [t \in DOMAIN reg \cup {type} |->
        IF t = type THEN setAdd(get(reg, type), handler) ELSE reg[t]]

\* mutant of unsubscribe: the entry of a type is kept when its set is empty
unsubscribe_keepsEmpty(reg, type, handler) ==
    IF has(reg, type)
    THEN [reg EXCEPT ![type] = setDelete(@, handler)]
    ELSE reg

\* the unsubscribe function returned by on(type, handler) (part_001:199-207):
\* the registry after a call of it
unsubscribe(reg, type, handler) ==
    IF has(reg, type)
    THEN IF Len(setDelete(reg[type], handler)) = 0
         THEN [t \in DOMAIN reg \ {type} |-> reg[t]]
         ELSE [reg EXCEPT ![type] = setDelete(@, handler)]
    ELSE reg

(* ---------------------- WebSocketClient: dispatch ---------------------- *)
\* event.data of a message event. kind "malformed": not JSON; "null": the JSON
\* text null; "json": any other JSON value, with its type field ("absent" when
\* it has none) and its data field ("absent", an object, or the falsy 0).
DataValues == {"absent", "obj", "zero"}
Falsy == {"zero"}
MessageData ==
    {[kind |-> "malformed", type |-> "absent", data |-> "absent"],
     [kind |-> "null", type |-> "absent", data |-> "absent"]}
    \cup {[kind |-> "json", type |-> t, data |-> d] :
             t \in Types \cup {"absent"}, d \in DataValues}

\* handlers.forEach(handler => handler(arg)) over the Set hs registered under
\* a type: the invocations made, and whether one of them threw (forEach stops
\* at the first handler that throws)
forEach(hs, under, arg) ==
    LET throwers == {i \in 1..Len(hs) : hs[i] \in Throwing}
        last == IF throwers = {} THEN Len(hs)
                ELSE CHOOSE i \in throwers : \A j \in throwers : i <= j
    IN  [calls |-> [i \in 1..last |-> [h |-> hs[i], under |-> under, arg |-> arg]],
         threw |-> throwers # {}]

\* the catch block of part_001:123-133, entered after the invocations calls
catchBlock(reg, p, calls) ==
    LET r == forEach(get(reg, "message"), "message", <<"raw", p>>)
    IN  [calls |-> calls \o r.calls, escaped |-> r.threw]

\* socket.onmessage (part_001:103-134) for event.data = p: the handler
\* invocations in order, and whether an exception left the event handler
onmessage(reg, p) ==
    IF p.kind \in {"malformed", "null"}
    THEN catchBlock(reg, p, <<>>)
    ELSE LET type == IF p.type = "absent" THEN "message" ELSE p.type
             arg == IF p.data \in {"absent"} \cup Falsy
                    THEN <<"parsed", p>> ELSE <<"data", p.data>>
             r1 == forEach(get(reg, type), type, arg)
             r2 == forEach(get(reg, "message"), "message", <<"parsed", p>>)
         IN  IF r1.threw THEN catchBlock(reg, p, r1.calls)
             ELSE IF type = "message"
             THEN [calls |-> r1.calls, escaped |-> FALSE]
             ELSE IF r2.threw THEN catchBlock(reg, p, r1.calls \o r2.calls)
             ELSE [calls |-> r1.calls \o r2.calls, escaped |-> FALSE]

(* ------------------------- NotificationService ------------------------- *)
\* Fields of the service (notifications.ts:53-57) and the part of its
\* configuration the socket client is created with (notifications.ts:63-68).
\* returned is the array the caller got from its latest getNotifications()
\* call, as the caller holds it: the identities of the objects in it.
\* onStatusChange is the value handlers.onStatusChange was last called with
\* ("none" before its first call); the owner has registered the handler with
\* setHandlers (notifications.ts:188-193) before the first event arrives.
\* connectPromise[c] is the state of the promise returned by the connect()
\* call that created client c (notifications.ts:115), onError the number of
\* calls of handlers.onError so far. onNotification: whether
\* handlers.onNotification is set (notifications.ts:58, 188-193). wsUrl is
\* config.wsUrl (notifications.ts:41, 63-68).
NewService(attempts, urlOk) ==
    [wsClient |-> 0, notificationCache |-> <<>>,
     reconnectAttempts |-> attempts, urlOk |-> urlOk, returned |-> <<>>,
     onStatusChange |-> "none", connectPromise |-> <<>>, onError |-> 0,
     onNotification |-> FALSE, wsUrl |-> "ws://a"]

\* resolve() or reject(error) called on a promise
settle(promise, how) == IF promise = "pending" THEN how ELSE promise

NoService == NewService(0, FALSE)

\* createWebSocketConnection(url, options) (part_001:247-256): a new client,
\* with connect() called on it
createWebSocketConnection(cs, ts, attempts, urlOk) ==
    LET c == Len(cs) + 1
        r == connect(Append(cs, NewClient(attempts, urlOk)), ts, c)
    IN  [clients |-> r.clients, transports |-> r.transports, client |-> c]

\* NotificationService.connect() (notifications.ts:110-154): the service, the
\* clients and the transports afterwards. The handler of notifications.ts:
\* 143-145 is registered on the new client under 'notification'.
svcConnect(sv, cs, ts) ==
    IF sv.wsClient # 0 /\ isConnected(cs[sv.wsClient], ts)
    THEN [svc |-> sv, clients |-> cs, transports |-> ts]
    ELSE LET r == createWebSocketConnection(cs, ts, sv.reconnectAttempts,
                                            sv.urlOk)
         IN  [svc |-> [sv EXCEPT !.wsClient = r.client,
                                 !.connectPromise = Append(@, "pending")],
              clients |-> [r.clients EXCEPT ![r.client].messageHandlers =
                              on(@, "notification", "handleNotification")],
              transports |-> r.transports]

\* mutant of svcDisconnect: the client is dropped without close()
svcDisconnect_dropsOnly(sv, cs, ts) ==
    IF sv.wsClient # 0
    THEN [svc |-> [sv EXCEPT !.wsClient = 0, !.onStatusChange = "false"],
          clients |-> cs, transports |-> ts]
    ELSE [svc |-> sv, clients |-> cs, transports |-> ts]

\* NotificationService.disconnect() (notifications.ts:167-176)
svcDisconnect(sv, cs, ts) ==
    IF sv.wsClient # 0
    THEN [svc |-> [sv EXCEPT !.wsClient = 0, !.onStatusChange = "false"],
          clients |-> [cs EXCEPT ![sv.wsClient] = closeFields(@)],
          transports |-> closeTransports(cs[sv.wsClient], ts, FALSE)]
    ELSE [svc |-> sv, clients |-> cs, transports |-> ts]

\* NotificationService.reconnect() (notifications.ts:159-162)
svcReconnect(sv, cs, ts) ==
    LET d == svcDisconnect(sv, cs, ts)
    IN  svcConnect(d.svc, d.clients, d.transports)

\* NotificationService.isConnected() (notifications.ts:181-183), the test of
\* notifications.ts:229 and 244
svcIsConnected(sv, cs, ts) ==
    sv.wsClient # 0 /\ isConnected(cs[sv.wsClient], ts)

\* The wsUrl of a configuration passed to getInstance (notifications.ts:41);
\* "" is the empty string.
Urls == {"ws://a", "ws://b", ""}

\* updateConfig(config) (notifications.ts:95-105) with config.wsUrl = wsUrl
updateConfig(sv, cs, ts, wsUrl) ==
    LET merged == [sv EXCEPT !.wsUrl = wsUrl]
    IN  IF wsUrl # "" /\ svcIsConnected(sv, cs, ts)
        THEN svcReconnect(merged, cs, ts)
        ELSE [svc |-> merged, clients |-> cs, transports |-> ts]

\* NotificationService.getInstance(config) (notifications.ts:78-90) once the
\* instance exists; given: whether a configuration is passed
getInstance(sv, cs, ts, given, wsUrl) ==
    IF given THEN updateConfig(sv, cs, ts, wsUrl)
    ELSE [svc |-> sv, clients |-> cs, transports |-> ts]

\* What the handler of notifications.ts:143 is called with: the data of a
\* notification-typed message. oid is the identity of the object (the number
\* of the message it came with). A Notification (notifications.ts:18-27) has
\* an id and read = false; a primitive (a number or a string sent as data)
\* has no id and no read property: id 0 stands for undefined, its read for a
\* falsy undefined.
NotificationIds == {1, 2}
Notification(oid, id) == [kind |-> "obj", oid |-> oid, id |-> id, read |-> FALSE]
Primitive(oid) == [kind |-> "prim", oid |-> oid, id |-> 0, read |-> FALSE]
ReceivedData(oid) ==
    {Notification(oid, id) : id \in NotificationIds} \cup {Primitive(oid)}

\* The data field of a notification-typed envelope the server sends as
\* message oid: a Notification, a primitive, an object without an id, the
\* falsy 0, or no data field at all.
NoId(oid) == [kind |-> "obj", oid |-> oid, id |-> 0, read |-> FALSE]
Zero(oid) == [kind |-> "zero", oid |-> oid, id |-> 0, read |-> FALSE]
Absent(oid) == [kind |-> "absent", oid |-> oid, id |-> 0, read |-> FALSE]
EnvelopeData(oid) == ReceivedData(oid) \cup {NoId(oid), Zero(oid), Absent(oid)}

\* the parsed envelope {type: 'notification', data} itself: an object with
\* neither id nor read
Envelope(oid) == [kind |-> "env", oid |-> oid, id |-> 0, read |-> FALSE]

\* message.data || message (part_001:112): what the handlers registered under
\* the envelope's type are called with
handlerArg(d) == IF d.kind \in {"zero", "absent"} THEN Envelope(d.oid) ELSE d

\* setHandlers(handlers) (notifications.ts:188-193): the merged
\* handlers.onNotification; given is whether the argument has the key
setHandlers(sv, given) == [sv EXCEPT !.onNotification = @ \/ given]

\* mutant of onNotificationCalls: the handler is invoked before the insertion
onNotificationCalls_first(sv, cache, n) ==
    IF sv.onNotification
    THEN <<[fn |-> "onNotification", arg |-> n,
            cache |-> sv.notificationCache]>>
    ELSE <<>>

\* the invocation of notifications.ts:208-210, after the cache has become
\* cache: its argument, and the cache the handler finds
onNotificationCalls(sv, cache, n) ==
    IF sv.onNotification
    THEN <<[fn |-> "onNotification", arg |-> n, cache |-> cache]>>
    ELSE <<>>

\* mutant of handleNotification: the overflow is removed from the front
handleNotification_shift(cache, n) ==
    LET c1 == <<n>> \o cache
    IN  IF Len(c1) > cacheLimit THEN SubSeq(c1, 2, Len(c1)) ELSE c1

\* mutant of handleNotification: the limit is compared with >=
handleNotification_gte(cache, n) ==
    LET c1 == <<n>> \o cache
    IN  IF Len(c1) >= cacheLimit THEN SubSeq(c1, 1, Len(c1) - 1) ELSE c1

\* handleNotification(notification) (notifications.ts:198-211): the cache
\* after unshift and the conditional pop
handleNotification(cache, n) ==
    LET c1 == <<n>> \o cache
    IN  IF Len(c1) > cacheLimit THEN SubSeq(c1, 1, Len(c1) - 1) ELSE c1

\* getNotifications() (notifications.ts:216-218)
getNotifications(sv) == [i \in 1..Len(sv.notificationCache) |-> sv.notificationCache[i]]

\* index of the record found by find(n => n.id === id), 0 when none
\* (notifications.ts:224)
findById(cache, id) ==
    IF \E i \in 1..Len(cache) : cache[i].id = id
    THEN CHOOSE i \in 1..Len(cache) :
            /\ cache[i].id = id
            /\ \A j \in 1..(i - 1) : cache[j].id # id
    ELSE 0

\* mutant of markAsReadCache: every record with the id is marked
markAsReadCache_everyMatch(cache, id) ==
    [i \in 1..Len(cache) |->
        IF cache[i].id = id THEN [cache[i] EXCEPT !.read = TRUE] ELSE cache[i]]

\* markAsRead(id) (notifications.ts:223-233): the cache afterwards
markAsReadCache(cache, id) ==
    IF findById(cache, id) # 0
    THEN [cache EXCEPT ![findById(cache, id)].read = TRUE]
    ELSE cache

\* markAsRead(id): what has been handed to the transport afterwards
markAsReadWire(sv, cs, ts, w, id) ==
    IF findById(sv.notificationCache, id) # 0 /\ sv.wsClient # 0
    THEN sendWire(cs[sv.wsClient], ts, w, <<"mark-read", id, TRUE>>, TRUE)
    ELSE w

\* notification.read = true (notifications.ts:240) in the strict code of a
\* module throws a TypeError when notification is a primitive; the forEach of
\* notifications.ts:239 stops there. 0 when no element throws.
firstPrimitive(cache) ==
    IF \E i \in 1..Len(cache) : cache[i].kind = "prim"
    THEN CHOOSE i \in 1..Len(cache) :
            /\ cache[i].kind = "prim"
            /\ \A j \in 1..(i - 1) : cache[j].kind # "prim"
    ELSE 0

\* markAllAsRead() (notifications.ts:238-247): the cache afterwards
markAllAsReadCache(cache) ==
    [i \in 1..Len(cache) |->
        IF firstPrimitive(cache) = 0 \/ i < firstPrimitive(cache)
        THEN [cache[i] EXCEPT !.read = TRUE] ELSE cache[i]]

\* markAllAsRead(): what has been handed to the transport afterwards
markAllAsReadWire(sv, cs, ts, w) ==
    IF sv.wsClient # 0 /\ firstPrimitive(sv.notificationCache) = 0
    THEN sendWire(cs[sv.wsClient], ts, w, <<"mark-all-read", TRUE>>, TRUE)
    ELSE w

\* [...this.notificationCache] (notifications.ts:217): a new array holding
\* the same objects
shallowCopy(cache) == [i \in 1..Len(cache) |-> cache[i].oid]

\* the caller assigns read = value to the object oid it got from
\* getNotifications(): the cache afterwards (the cache holds the same object)
writeRead(cache, oid, value) ==
    [i \in 1..Len(cache) |->
        IF cache[i].oid = oid /\ cache[i].kind = "obj"
        THEN [cache[i] EXCEPT !.read = value] ELSE cache[i]]

\* getUnreadCount() (notifications.ts:252-254)
getUnreadCount(sv) ==
    Cardinality({i \in 1..Len(sv.notificationCache) :
                    ~sv.notificationCache[i].read})

(* ------------------------------ ApiClient ------------------------------ *)
\* new ApiClient(config) (api.ts:47-53): given is the caller's config, config
\* the stored this.config; a falsy option is replaced by the default.
\* authToken is the private field of api.ts:45, set from config.authToken when
\* that is truthy (api.ts:55-57); "null" stands for null.
NewApiClient(maxRetries, retryDelay, authToken) ==
    [given |-> [maxRetries |-> maxRetries, retryDelay |-> retryDelay],
     config |-> [maxRetries |-> IF maxRetries = 0 THEN MAX_RETRIES
                                ELSE maxRetries,
                 retryDelay |-> IF retryDelay = 0 THEN RETRY_DELAY
                                ELSE retryDelay],
     authToken |-> authToken]

NoApi == NewApiClient(0, 0, "null")

\* the tokens a caller stores; "null" is null
Tokens == {"null", "a", "b"}

\* the Authorization header value `Bearer ${token}` (api.ts:72); <<>> is a
\* request configuration without that header
Bearer(token) == <<"Bearer", token>>
NoHeader == <<>>

\* The failures an attempt can end with, as the AxiosError the response
\* interceptor receives: its code and the status of its response (0: no
\* response). kind names what happened on the wire.
\* body is error.response.data: an object with a string message, another
\* body, or "undefined" when there is no response.
Statuses == {400, 499, 500, 599, 600}
Bodies == {"withMessage", "plain"}
Failures ==
    {[kind |-> "timeout", code |-> "ECONNABORTED", status |-> 0,
      body |-> "undefined"],
     [kind |-> "network", code |-> "ERR_NETWORK", status |-> 0,
      body |-> "undefined"]}
    \cup {[kind |-> "http",
           code |-> IF s < 500 THEN "ERR_BAD_REQUEST" ELSE "ERR_BAD_RESPONSE",
           status |-> s, body |-> b] : s \in Statuses, b \in Bodies}

\* the argument recorded for a step that is not a failed attempt
NoFailure == [kind |-> "none", code |-> "", status |-> -1, body |-> "undefined"]

\* what a request holds before anything was thrown to its caller
NoError == [name |-> "none", message |-> "", status |-> -1, data |-> "undefined"]

\* hasMessage(obj) (api.ts:37-39)
hasMessage(body) == body = "withMessage"

\* mutant of toApiError: the status is taken from the response only for 4xx
toApiError_serverStatusLost(f) ==
    IF f.kind = "http"
    THEN [name |-> "ApiError",
          message |-> IF hasMessage(f.body) THEN "errorData.message"
                      ELSE "API request failed",
          status |-> IF f.status < 500 THEN f.status ELSE 0, data |-> f.body]
    ELSE [name |-> "ApiError", message |-> "No response received from server",
          status |-> 0, data |-> "undefined"]

\* the transformation of api.ts:103-117: the ApiError thrown for failure f
toApiError(f) ==
    IF f.kind = "http"
    THEN [name |-> "ApiError",
          message |-> IF hasMessage(f.body) THEN "errorData.message"
                      ELSE "API request failed",
          status |-> f.status, data |-> f.body]
    ELSE [name |-> "ApiError", message |-> "No response received from server",
          status |-> 0, data |-> "undefined"]

\* the request interceptor (api.ts:69-75) applied to a request configuration
\* that is about to be transmitted: tokenAtSend records the stored token
requestInterceptor(a, rq) ==
    [rq EXCEPT !.authorization =
                   IF ~rq.skipAuth /\ a.authToken # "null"
                   THEN Bearer(a.authToken) ELSE @,
               !.tokenAtSend = a.authToken]

\* a request as first issued by get/post/put/patch/delete (api.ts:128-155)
\* authorization is the Authorization header of the request configuration,
\* thrown the error its caller received.
NewRequest(skipRetry, skipAuth) ==
    [skipRetry |-> skipRetry, skipAuth |-> skipAuth, retryCount |-> 0,
     sent |-> 1, state |-> "inflight", delays |-> <<>>, error |-> -1,
     thrown |-> NoError, authorization |-> NoHeader, tokenAtSend |-> "null"]

RECURSIVE Pow2(_)
Pow2(k) == IF k = 0 THEN 1 ELSE 2 * Pow2(k - 1)

\* this.config.maxRetries || MAX_RETRIES   (api.ts:92)
retryLimit(a) ==
    IF a.config.maxRetries = 0 THEN MAX_RETRIES ELSE a.config.maxRetries

\* mutant of shouldRetry: every status from 500 up is retried
shouldRetry_noUpperBound(a, rq, f) ==
    /\ ~rq.skipRetry
    /\ (f.code = "ECONNABORTED" \/ f.status = 0 \/ f.status >= 500)
    /\ rq.retryCount < retryLimit(a)

\* the condition of api.ts:87-93
shouldRetry(a, rq, f) ==
    /\ ~rq.skipRetry
    /\ (f.code = "ECONNABORTED" \/ f.status = 0
        \/ (f.status >= 500 /\ f.status < 600))
    /\ rq.retryCount < retryLimit(a)

\* mutant of retryDelayFor: the exponent is the incremented retry count
retryDelayFor_afterIncrement(a, retryCount) ==
    (IF a.config.retryDelay = 0 THEN RETRY_DELAY ELSE a.config.retryDelay)
        * Pow2(retryCount + 1)

\* (this.config.retryDelay || RETRY_DELAY) * Math.pow(2, retryCount)
\* (api.ts:96)
retryDelayFor(a, retryCount) ==
    (IF a.config.retryDelay = 0 THEN RETRY_DELAY ELSE a.config.retryDelay)
        * Pow2(retryCount)

\* the response interceptor's error handler (api.ts:82-118) applied to request
\* rq failing with f: a retry is scheduled, or an ApiError is thrown
onResponseError(a, rq, f) ==
    IF shouldRetry(a, rq, f)
    THEN [rq EXCEPT !.retryCount = @ + 1,
                    !.delays = Append(@, retryDelayFor(a, rq.retryCount)),
                    !.state = "backoff"]
    ELSE [rq EXCEPT !.state = "rejected", !.error = f.status,
                    !.thrown = toApiError(f)]

\* mutant of reissue: the timer callback does not transmit the request again
reissue_dropped(a, rq) == rq

\* the timer callback of api.ts:99: this.instance(originalRequest) passes the
\* same configuration through the request interceptor and transmits it
reissue(a, rq) ==
    requestInterceptor(a, [rq EXCEPT !.state = "inflight", !.sent = @ + 1])

(* ------------------------------ SSEClient ------------------------------ *)
\* Fields of a constructed client (sse.ts:16-27): the handle, and which of
\* the optional callbacks its options hold. urlOk: new EventSource(url)
\* accepts the URL (it throws a SyntaxError otherwise).
NewStream(hasOnError, hasOnOpen, urlOk) ==
    [eventSource |-> 0, onError |-> hasOnError, onOpen |-> hasOnOpen,
     urlOk |-> urlOk]

NoStream == NewStream(FALSE, FALSE, FALSE)

\* the browser EventSource created at sse.ts:37
NewSource == [readyState |-> "CONNECTING"]

\* close() (sse.ts:72-77)
sseClose(cl, srcs) ==
    IF cl.eventSource # 0
    THEN [sse |-> [cl EXCEPT !.eventSource = 0],
          sources |-> [srcs EXCEPT ![cl.eventSource].readyState = "CLOSED"]]
    ELSE [sse |-> cl, sources |-> srcs]

\* mutant of sseConnect: the stream the client holds is not closed
sseConnect_leaksOld(cl, srcs) ==
    IF cl.urlOk
    THEN [sse |-> [cl EXCEPT !.eventSource = Len(srcs) + 1],
          sources |-> Append(srcs, NewSource)]
    ELSE [sse |-> cl, sources |-> srcs]

\* connect() (sse.ts:32-67): the existing stream is closed, then the new one
\* is created and the handle set; when the constructor throws, the call ends
\* after the close
sseConnect(cl, srcs) ==
    LET c == sseClose(cl, srcs)
    IN  IF cl.urlOk
        THEN [sse |-> [c.sse EXCEPT !.eventSource = Len(c.sources) + 1],
              sources |-> Append(c.sources, NewSource)]
        ELSE c

\* isConnected() (sse.ts:82-84)
sseIsConnected(cl, srcs) ==
    cl.eventSource # 0 /\ srcs[cl.eventSource].readyState = "OPEN"

\* mutant of sseOnerror: the client reconnects by itself
sseOnerror_reconnects(cl, srcs) == sseConnect(cl, srcs)

\* eventSource.onerror (sse.ts:53-59): the client and the streams afterwards
sseOnerror(cl, srcs) == [sse |-> cl, sources |-> srcs]

\* eventSource.onopen (sse.ts:62-66): the client and the streams afterwards
sseOnopen(cl, srcs) == [sse |-> cl, sources |-> srcs]

\* event.data of a received event: the text of a JSON value, or text that is
\* not JSON
EventData == {"{\"a\":1}", "17", "hello"}

\* JSON.parse(event.data) (sse.ts:44): the decoded value, or a throw
JSONparse(text) ==
    IF text = "{\"a\":1}" THEN [ok |-> TRUE, value |-> "object a:1"]
    ELSE IF text = "17" THEN [ok |-> TRUE, value |-> "number 17"]
    ELSE [ok |-> FALSE, value |-> ""]

OnMessageCall(arg) == [fn |-> "onMessage", arg |-> arg]

\* mutant of sseOnmessage: the handler always gets the raw string
sseOnmessage_raw(text, throws) == <<OnMessageCall(text)>>

\* eventSource.onmessage (sse.ts:42-50): the invocations of options.onMessage
\* it makes. throws: the handler throws when it is called with the decoded
\* value; the call sits inside the try block, so the catch block calls the
\* handler again with the raw string.
sseOnmessage(text, throws) ==
    IF JSONparse(text).ok
    THEN IF throws
         THEN <<OnMessageCall(JSONparse(text).value), OnMessageCall(text)>>
         ELSE <<OnMessageCall(JSONparse(text).value)>>
    ELSE <<OnMessageCall(text)>>

(* ------------------------------ history -------------------------------- *)
\* failed:  connection attempts of the client that ended without opening
\*          since its last successful open
\* closed:  close() was called and connect() has not been called since
\* unsubs:  the <<type, handler>> pairs on() has returned an unsubscribe
\*          function for
NewTrack == [failed |-> 0, closed |-> FALSE, unsubs |-> {}]

Op(name, c, res, arg) == [op |-> name, c |-> c, res |-> res, arg |-> arg]

(* ---------------------- SocketSpec: one client ------------------------- *)
SocketInit ==
    /\ \E n \in 0..MaxAttemptsOpt, u \in BOOLEAN :
          clients = <<NewClient(n, u)>>
    /\ transports = <<>>
    /\ wire = <<>>
    /\ lastOp = Op("new", 1, "", "")
    /\ track = <<NewTrack>>
    /\ svc = NoService
    /\ arrivals = 0
    /\ marks = 0
    /\ api = NoApi
    /\ requests = <<>>
    /\ sse = NoStream
    /\ sources = <<>>
    /\ callbacks = <<>>

\* the owner calls connect()
Connect(c, lim) ==
    LET r == connect(clients, transports, c) IN
    /\ Len(r.transports) <= lim
    /\ clients' = r.clients
    /\ transports' = r.transports
    /\ lastOp' = Op("connect", c, r.outcome, "")
    /\ track' = [track EXCEPT ![c].closed = FALSE]
    /\ UNCHANGED wire

\* the owner calls close(code, reason)
Close(c, throws) ==
    /\ clients' = [clients EXCEPT ![c] = closeFields(@)]
    /\ transports' = closeTransports(clients[c], transports, throws)
    /\ lastOp' = Op("close", c, IF throws THEN "threw" ELSE "ok", "")
    /\ track' = [track EXCEPT ![c].closed = TRUE]
    /\ UNCHANGED wire

\* the owner calls send(data, type)
Send(c, data, typed) ==
    /\ Len(sendWire(clients[c], transports, wire, data, typed)) <= MaxSends
    /\ wire' = sendWire(clients[c], transports, wire, data, typed)
    /\ lastOp' = Op("send", c,
                    IF sendResult(clients[c], transports, data, typed)
                    THEN "true" ELSE "false", data)
    /\ UNCHANGED <<clients, transports, track>>

\* the reconnect timer of part_001:235-240 fires
ReconnectTimer(c, lim) ==
    /\ clients[c].reconnectTimer
    /\ LET cs1 == [clients EXCEPT ![c].reconnectTimer = FALSE]
           r == connect(cs1, transports, c)
       IN  /\ Len(r.transports) <= lim
           /\ clients' = r.clients
           /\ transports' = r.transports
           /\ lastOp' = Op("timer", c, r.outcome, "")
    /\ UNCHANGED <<wire, track>>

\* the handshake of transport t succeeds: open event
TransportOpen(t) ==
    /\ transports[t].readyState = "CONNECTING"
    /\ transports' = [transports EXCEPT
                         ![t] = resolvePromise([@ EXCEPT !.readyState = "OPEN",
                                                         !.wasOpen = TRUE])]
    /\ clients' = [clients EXCEPT ![transports[t].owner] = onopen(@)]
    /\ track' = [track EXCEPT ![transports[t].owner].failed = 0]
    /\ lastOp' = Op("open", transports[t].owner, "", "")
    /\ UNCHANGED wire

\* transport t fails: error event (its close event follows)
TransportError(t) ==
    /\ transports[t].readyState \in {"CONNECTING", "OPEN", "CLOSING"}
    /\ transports' = [transports EXCEPT
                         ![t] = rejectPromise([@ EXCEPT !.readyState = "CLOSED"],
                                              clients[transports[t].owner])]
    /\ clients' = [clients EXCEPT ![transports[t].owner] = onerror(@)]
    /\ lastOp' = Op("error", transports[t].owner, "", "")
    /\ UNCHANGED <<wire, track>>

\* transport t is closed (by the peer, after close(), or after an error):
\* close event
TransportClose(t) ==
    /\ ~transports[t].closeDelivered
    /\ transports[t].readyState \in {"OPEN", "CLOSING", "CLOSED"}
    /\ transports' = [transports EXCEPT ![t].readyState = "CLOSED",
                                        ![t].closeDelivered = TRUE]
    /\ clients' = [clients EXCEPT ![transports[t].owner] = onclose(@)]
    /\ track' = [track EXCEPT ![transports[t].owner].failed =
                     IF transports[t].wasOpen THEN @ ELSE @ + 1]
    /\ lastOp' = Op("closeEvent", transports[t].owner, "", "")
    /\ UNCHANGED wire

\* the owner calls on(type, handler) and keeps the returned function
On(c, type, handler) ==
    /\ clients' = [clients EXCEPT ![c].messageHandlers = on(@, type, handler)]
    /\ track' = [track EXCEPT ![c].unsubs = @ \cup {<<type, handler>>}]
    /\ lastOp' = Op("on", c, "", "")
    /\ UNCHANGED <<transports, wire>>

SocketNext ==
    \/ Connect(1, MaxTransports) /\ UNCHANGED <<notifVars, apiVars, sseVars>>
    \/ \E throws \in BOOLEAN : Close(1, throws) /\ UNCHANGED <<notifVars, apiVars, sseVars>>
    \/ \E d \in Payloads, ty \in BOOLEAN : Send(1, d, ty) /\ UNCHANGED <<notifVars, apiVars, sseVars>>
    \/ ReconnectTimer(1, MaxTransports) /\ UNCHANGED <<notifVars, apiVars, sseVars>>
    \/ \E t \in 1..Len(transports) : TransportOpen(t) /\ UNCHANGED <<notifVars, apiVars, sseVars>>
    \/ \E t \in 1..Len(transports) : TransportError(t) /\ UNCHANGED <<notifVars, apiVars, sseVars>>
    \/ \E t \in 1..Len(transports) : TransportClose(t) /\ UNCHANGED <<notifVars, apiVars, sseVars>>
    \/ On(1, "message", "h1") /\ UNCHANGED <<notifVars, apiVars, sseVars>>

SocketSpec == SocketInit /\ [][SocketNext]_vars

(* ------------ DispatchSpec: one client and its handlers ---------------- *)
DispatchInit ==
    /\ clients = <<NewClient(1, TRUE)>>
    /\ transports = <<>>
    /\ wire = <<>>
    /\ lastOp = Op("new", 1, "", "")
    /\ track = <<NewTrack>>
    /\ svc = NoService
    /\ arrivals = 0
    /\ marks = 0
    /\ api = NoApi
    /\ requests = <<>>
    /\ sse = NoStream
    /\ sources = <<>>
    /\ callbacks = <<>>

\* the owner calls a function returned by on(type, handler)
Unsubscribe(c, type, handler) ==
    /\ <<type, handler>> \in track[c].unsubs
    /\ clients' = [clients EXCEPT
                      ![c].messageHandlers = unsubscribe(@, type, handler)]
    /\ lastOp' = Op("unsubscribe", c,
                    IF handler \in Range(get(clients[c].messageHandlers, type))
                    THEN "removed" ELSE "absent", <<type, handler>>)
    /\ UNCHANGED <<transports, wire, track>>

\* a message event with event.data = p is delivered on open transport t
Message(t, p) ==
    /\ transports[t].readyState = "OPEN"
    /\ lastOp' = Op("message", transports[t].owner,
                    onmessage(clients[transports[t].owner].messageHandlers, p),
                    p)
    /\ UNCHANGED <<clients, transports, wire, track>>

DispatchNext ==
    \/ Connect(1, DispatchTransports) /\ UNCHANGED <<notifVars, apiVars, sseVars>>
    \/ ReconnectTimer(1, DispatchTransports) /\ UNCHANGED <<notifVars, apiVars, sseVars>>
    \/ \E t \in 1..Len(transports) : TransportOpen(t) /\ UNCHANGED <<notifVars, apiVars, sseVars>>
    \/ \E t \in 1..Len(transports) : TransportClose(t) /\ UNCHANGED <<notifVars, apiVars, sseVars>>
    \/ \E ty \in Types, h \in Handlers :
          On(1, ty, h) /\ UNCHANGED <<notifVars, apiVars, sseVars>>
    \/ \E ty \in Types, h \in Handlers :
          Unsubscribe(1, ty, h) /\ UNCHANGED <<notifVars, apiVars, sseVars>>
    \/ \E t \in 1..Len(transports), p \in MessageData :
          Message(t, p) /\ UNCHANGED <<notifVars, apiVars, sseVars>>

DispatchSpec == DispatchInit /\ [][DispatchNext]_vars

(* --------------- CacheSpec: a service and its socket clients ----------- *)
\* options.reconnectAttempts the service is configured with
SvcAttemptOpts == {1}

\* The state after new NotificationService(config): with autoConnect the
\* constructor has called connect() (notifications.ts:62-73).
NotifInit ==
    /\ \E n \in SvcAttemptOpts, u \in BOOLEAN, auto \in BOOLEAN :
          LET sv == NewService(n, u)
              r == IF auto THEN svcConnect(sv, <<>>, <<>>)
                   ELSE [svc |-> sv, clients |-> <<>>, transports |-> <<>>]
          IN  /\ svc = r.svc
              /\ clients = r.clients
              /\ transports = r.transports
              /\ track = [c \in 1..Len(r.clients) |-> NewTrack]
    /\ wire = <<>>
    /\ lastOp = Op("new", 0, "", "")
    /\ arrivals = 0
    /\ marks = 0
    /\ api = NoApi
    /\ requests = <<>>
    /\ sse = NoStream
    /\ sources = <<>>
    /\ callbacks = <<>>

\* tracks for the clients created by a step
GrowTrack(tr, cs) ==
    [c \in 1..Len(cs) |-> IF c <= Len(tr) THEN tr[c] ELSE NewTrack]

\* the owner calls NotificationService.connect()
SvcConnect(limC, limT) ==
    LET r == svcConnect(svc, clients, transports) IN
    /\ Len(r.clients) <= limC
    /\ Len(r.transports) <= limT
    /\ svc' = r.svc
    /\ clients' = r.clients
    /\ transports' = r.transports
    /\ track' = GrowTrack(track, r.clients)
    /\ lastOp' = Op("svc.connect", r.svc.wsClient, "", "")
    /\ UNCHANGED <<wire, arrivals, marks>>

\* the owner calls NotificationService.disconnect()
SvcDisconnect ==
    LET r == svcDisconnect(svc, clients, transports) IN
    /\ svc' = r.svc
    /\ clients' = r.clients
    /\ transports' = r.transports
    /\ track' = IF svc.wsClient # 0
                THEN [track EXCEPT ![svc.wsClient].closed = TRUE] ELSE track
    /\ lastOp' = Op("svc.disconnect", svc.wsClient, "", "")
    /\ UNCHANGED <<wire, arrivals, marks>>

\* the owner calls NotificationService.reconnect()
SvcReconnect(limC, limT) ==
    LET r == svcReconnect(svc, clients, transports) IN
    /\ Len(r.clients) <= limC
    /\ Len(r.transports) <= limT
    /\ svc' = r.svc
    /\ clients' = r.clients
    /\ transports' = r.transports
    /\ track' = GrowTrack(IF svc.wsClient # 0
                          THEN [track EXCEPT ![svc.wsClient].closed = TRUE]
                          ELSE track, r.clients)
    /\ lastOp' = Op("svc.reconnect", r.svc.wsClient, Len(clients), svc.wsClient)
    /\ UNCHANGED <<wire, arrivals, marks>>

\* the open event of transport t: socket.onopen, whose options.onOpen is the
\* callback of notifications.ts:121-126
SvcOpenEvent(t) ==
    /\ TransportOpen(t)
    /\ svc' = [svc EXCEPT !.onStatusChange = "true",
                          !.connectPromise[transports[t].owner] =
                              settle(@, "resolved")]
    /\ UNCHANGED <<arrivals, marks>>

\* the close event of transport t: socket.onclose, whose options.onClose is
\* the callback of notifications.ts:128-132
SvcCloseEvent(t) ==
    /\ TransportClose(t)
    /\ svc' = [svc EXCEPT !.onStatusChange = "false"]
    /\ UNCHANGED <<arrivals, marks>>

\* the error event of transport t: socket.onerror, whose options.onError is
\* the callback of notifications.ts:134-139
SvcErrorEvent(t) ==
    /\ TransportError(t)
    /\ svc' = [svc EXCEPT !.onError = @ + 1,
                          !.connectPromise[transports[t].owner] =
                              settle(@, "rejected")]
    /\ UNCHANGED <<arrivals, marks>>

\* a notification-typed message arrives on open transport t: the handler
\* registered at notifications.ts:143-145 runs handleNotification
NotificationArrives(t, limA, data) ==
    /\ transports[t].readyState = "OPEN"
    /\ "handleNotification" \in
          Range(get(clients[transports[t].owner].messageHandlers, "notification"))
    /\ arrivals < limA
    /\ arrivals' = arrivals + 1
    /\ svc' = [svc EXCEPT !.notificationCache = handleNotification(@, data)]
    /\ lastOp' = Op("notification", transports[t].owner, "", "")
    /\ UNCHANGED <<clients, transports, wire, track, marks>>

\* what a call finds: the cache, the messages sent so far, and whether the
\* service is connected
Before ==
    [cache |-> svc.notificationCache, wire |-> wire,
     open |-> svcIsConnected(svc, clients, transports)]

\* the owner calls markAsRead(id)
MarkAsRead(id, limM) ==
    /\ marks < limM
    /\ marks' = marks + 1
    /\ svc' = [svc EXCEPT !.notificationCache = markAsReadCache(@, id)]
    /\ wire' = markAsReadWire(svc, clients, transports, wire, id)
    /\ lastOp' = Op("markAsRead", svc.wsClient, Before, id)
    /\ UNCHANGED <<clients, transports, track, arrivals>>

\* the owner calls markAllAsRead()
MarkAllAsRead(limM) ==
    /\ marks < limM
    /\ marks' = marks + 1
    /\ svc' = [svc EXCEPT !.notificationCache = markAllAsReadCache(@)]
    /\ wire' = markAllAsReadWire(svc, clients, transports, wire)
    /\ lastOp' = Op("markAllAsRead", svc.wsClient, Before, "")
    /\ UNCHANGED <<clients, transports, track, arrivals>>

CacheNext ==
    \/ SvcConnect(CacheClients, CacheTransports) /\ UNCHANGED <<apiVars, sseVars>>
    \/ SvcDisconnect /\ UNCHANGED <<apiVars, sseVars>>
    \/ SvcReconnect(CacheClients, CacheTransports) /\ UNCHANGED <<apiVars, sseVars>>
    \/ \E t \in 1..Len(transports) :
          NotificationArrives(t, MaxArrivals,
                              Notification(arrivals + 1, arrivals + 1))
          /\ UNCHANGED <<apiVars, sseVars>>
    \/ \E id \in 1..MaxMarkId : MarkAsRead(id, CacheMarks) /\ UNCHANGED <<apiVars, sseVars>>
    \/ MarkAllAsRead(CacheMarks) /\ UNCHANGED <<apiVars, sseVars>>
    \/ \E c \in 1..Len(clients) :
          ReconnectTimer(c, CacheTransports) /\ UNCHANGED <<notifVars, apiVars, sseVars>>
    \/ \E t \in 1..Len(transports) : SvcOpenEvent(t) /\ UNCHANGED <<apiVars, sseVars>>
    \/ \E t \in 1..Len(transports) : SvcErrorEvent(t) /\ UNCHANGED <<apiVars, sseVars>>
    \/ \E t \in 1..Len(transports) : SvcCloseEvent(t) /\ UNCHANGED <<apiVars, sseVars>>

CacheSpec == NotifInit /\ [][CacheNext]_vars

(* --------- StatusSpec: the lifecycle of a service and its clients ------- *)
StatusNext ==
    \/ SvcConnect(StatusClients, StatusTransports) /\ UNCHANGED <<apiVars, sseVars>>
    \/ SvcDisconnect /\ UNCHANGED <<apiVars, sseVars>>
    \/ SvcReconnect(StatusClients, StatusTransports) /\ UNCHANGED <<apiVars, sseVars>>
    \/ \E c \in 1..Len(clients) :
          ReconnectTimer(c, StatusTransports) /\ UNCHANGED <<notifVars, apiVars, sseVars>>
    \/ \E t \in 1..Len(transports) : SvcOpenEvent(t) /\ UNCHANGED <<apiVars, sseVars>>
    \/ \E t \in 1..Len(transports) : SvcErrorEvent(t) /\ UNCHANGED <<apiVars, sseVars>>
    \/ \E t \in 1..Len(transports) : SvcCloseEvent(t) /\ UNCHANGED <<apiVars, sseVars>>
    \/ \E t \in 1..Len(transports) :
          NotificationArrives(t, StatusArrivals,
                              Notification(arrivals + 1, arrivals + 1))
          /\ UNCHANGED <<apiVars, sseVars>>

StatusSpec == NotifInit /\ [][StatusNext]_vars

(* ------------- MarkSpec: a service and its read flags ------------------ *)
\* The state after new NotificationService(config) with autoConnect: the
\* constructor has called connect() (notifications.ts:62-73).
MarkInit ==
    /\ LET r == svcConnect(NewService(1, TRUE), <<>>, <<>>)
       IN  /\ svc = r.svc
           /\ clients = r.clients
           /\ transports = r.transports
           /\ track = [c \in 1..Len(r.clients) |-> NewTrack]
    /\ wire = <<>>
    /\ lastOp = Op("new", 0, "", "")
    /\ arrivals = 0
    /\ marks = 0
    /\ api = NoApi
    /\ requests = <<>>
    /\ sse = NoStream
    /\ sources = <<>>
    /\ callbacks = <<>>

MarkNext ==
    \/ SvcDisconnect /\ UNCHANGED <<apiVars, sseVars>>
    \/ \E t \in 1..Len(transports) : SvcOpenEvent(t) /\ UNCHANGED <<apiVars, sseVars>>
    \/ \E t \in 1..Len(transports) : SvcCloseEvent(t) /\ UNCHANGED <<apiVars, sseVars>>
    \/ \E t \in 1..Len(transports), n \in ReceivedData(arrivals + 1) :
          NotificationArrives(t, MarkArrivals, n) /\ UNCHANGED <<apiVars, sseVars>>
    \/ \E id \in NotificationIds : MarkAsRead(id, MarkCalls) /\ UNCHANGED <<apiVars, sseVars>>
    \/ MarkAllAsRead(MarkCalls) /\ UNCHANGED <<apiVars, sseVars>>

MarkSpec == MarkInit /\ [][MarkNext]_vars

(* --------- CopySpec: a service and a caller of getNotifications -------- *)
\* the caller calls getNotifications() and keeps the array
GetNotifications ==
    /\ svc' = [svc EXCEPT !.returned = shallowCopy(svc.notificationCache)]
    /\ lastOp' = Op("getNotifications", 0, Before, "")
    /\ UNCHANGED <<clients, transports, wire, track, arrivals, marks>>

\* the caller removes the first entry of the array it holds
CallerShift ==
    /\ Len(svc.returned) > 0
    /\ svc' = [svc EXCEPT !.returned = Tail(@)]
    /\ lastOp' = Op("callerShift", 0, Before, "")
    /\ UNCHANGED <<clients, transports, wire, track, arrivals, marks>>

\* the caller assigns read = value to entry i of the array it holds
CallerWrite(i, value) ==
    /\ i \in 1..Len(svc.returned)
    /\ svc' = [svc EXCEPT !.notificationCache =
                              writeRead(@, svc.returned[i], value)]
    /\ lastOp' = Op("callerWrite", 0, Before, "")
    /\ UNCHANGED <<clients, transports, wire, track, arrivals, marks>>

CopyNext ==
    \/ \E t \in 1..Len(transports) : SvcOpenEvent(t) /\ UNCHANGED <<apiVars, sseVars>>
    \/ \E t \in 1..Len(transports), n \in ReceivedData(arrivals + 1) :
          NotificationArrives(t, MarkArrivals, n) /\ UNCHANGED <<apiVars, sseVars>>
    \/ GetNotifications /\ UNCHANGED <<apiVars, sseVars>>
    \/ CallerShift /\ UNCHANGED <<apiVars, sseVars>>
    \/ \E i \in 1..MarkArrivals, v \in BOOLEAN :
          CallerWrite(i, v) /\ UNCHANGED <<apiVars, sseVars>>

CopySpec == MarkInit /\ [][CopyNext]_vars

(* ------- ConfigSpec: a service and the callers of getInstance ---------- *)
\* a caller calls NotificationService.getInstance(config), or getInstance()
\* when given is FALSE
GetInstance(given, wsUrl, limC, limT) ==
    LET r == getInstance(svc, clients, transports, given, wsUrl) IN
    /\ Len(r.clients) <= limC
    /\ Len(r.transports) <= limT
    /\ svc' = r.svc
    /\ clients' = r.clients
    /\ transports' = r.transports
    /\ track' = GrowTrack(IF r.svc.wsClient # svc.wsClient
                          THEN [track EXCEPT ![svc.wsClient].closed = TRUE]
                          ELSE track, r.clients)
    /\ lastOp' = Op("getInstance", r.svc.wsClient,
                    [wsClient |-> svc.wsClient, wsUrl |-> svc.wsUrl,
                     connected |-> svcIsConnected(svc, clients, transports)],
                    IF given THEN wsUrl ELSE "none")
    /\ UNCHANGED <<wire, arrivals, marks>>

ConfigNext ==
    \/ \E given \in BOOLEAN, u \in Urls :
          GetInstance(given, u, ConfigClients, ConfigTransports)
          /\ UNCHANGED <<apiVars, sseVars>>
    \/ SvcConnect(ConfigClients, ConfigTransports) /\ UNCHANGED <<apiVars, sseVars>>
    \/ SvcDisconnect /\ UNCHANGED <<apiVars, sseVars>>
    \/ \E c \in 1..Len(clients) :
          ReconnectTimer(c, ConfigTransports) /\ UNCHANGED <<notifVars, apiVars, sseVars>>
    \/ \E t \in 1..Len(transports) : SvcOpenEvent(t) /\ UNCHANGED <<apiVars, sseVars>>
    \/ \E t \in 1..Len(transports) : SvcCloseEvent(t) /\ UNCHANGED <<apiVars, sseVars>>

ConfigSpec == NotifInit /\ [][ConfigNext]_vars

(* ------ ReceiptSpec: a service receiving notification envelopes -------- *)
\* the owner calls setHandlers(handlers)
SetHandlers(given) ==
    /\ svc' = setHandlers(svc, given)
    /\ lastOp' = Op("setHandlers", svc.wsClient, "", "")
    /\ UNCHANGED <<clients, transports, wire, track, arrivals, marks>>

\* a message event with the envelope {type: 'notification', data: d} is
\* delivered on open transport t: socket.onmessage (part_001:103-114) calls
\* the handler registered at notifications.ts:143-145 with message.data ||
\* message, and handleNotification (notifications.ts:198-211) caches it and
\* calls handlers.onNotification
NotificationMessage(t, d, limA) ==
    LET n == handlerArg(d)
        cache == handleNotification(svc.notificationCache, n)
    IN  /\ transports[t].readyState = "OPEN"
        /\ "handleNotification" \in
              Range(get(clients[transports[t].owner].messageHandlers,
                        "notification"))
        /\ arrivals < limA
        /\ arrivals' = arrivals + 1
        /\ svc' = [svc EXCEPT !.notificationCache = cache]
        /\ callbacks' = callbacks \o onNotificationCalls(svc, cache, n)
        /\ lastOp' = Op("message", transports[t].owner,
                        [cache |-> svc.notificationCache,
                         calls |-> Len(callbacks)], d)
        /\ UNCHANGED <<clients, transports, wire, track, marks>>

ReceiptNext ==
    \/ \E given \in BOOLEAN :
          SetHandlers(given) /\ UNCHANGED <<apiVars, sseVars>>
    \/ \E t \in 1..Len(transports) : SvcOpenEvent(t) /\ UNCHANGED <<apiVars, sseVars>>
    \/ \E t \in 1..Len(transports) : SvcCloseEvent(t) /\ UNCHANGED <<apiVars, sseVars>>
    \/ \E t \in 1..Len(transports), d \in EnvelopeData(arrivals + 1) :
          NotificationMessage(t, d, ReceiptArrivals)
          /\ UNCHANGED <<apiVars, sse, sources>>

\* the cache after k notifications with distinct ids have been received,
\* the newest first (k <= cacheLimit)
Received(k) == [i \in 1..k |-> Notification(100 + k - i, 100 + k - i)]

\* The state after new NotificationService(config) with autoConnect, or the
\* state after that service's socket has opened and cacheLimit - 1 or
\* cacheLimit notifications have been received, with no onNotification
\* handler set so far.
ReceiptInit ==
    \/ MarkInit
    \/ /\ \E k \in {cacheLimit - 1, cacheLimit} :
             LET r == svcConnect(NewService(1, TRUE), <<>>, <<>>)
             IN  /\ svc = [r.svc EXCEPT !.notificationCache = Received(k),
                                        !.onStatusChange = "true",
                                        !.connectPromise[1] = settle(@, "resolved")]
                 /\ clients = [r.clients EXCEPT ![1] = onopen(@)]
                 /\ transports =
                       [r.transports EXCEPT
                           ![1] = resolvePromise([@ EXCEPT !.readyState = "OPEN",
                                                           !.wasOpen = TRUE])]
                 /\ track = [c \in 1..Len(r.clients) |-> NewTrack]
       /\ wire = <<>>
       /\ lastOp = Op("open", 1, "", "")
       /\ arrivals = 0
       /\ marks = 0
       /\ api = NoApi
       /\ requests = <<>>
       /\ sse = NoStream
       /\ sources = <<>>
       /\ callbacks = <<>>

ReceiptSpec == ReceiptInit /\ [][ReceiptNext]_vars

(* ---- FrameSpec: every operation of a service, and a caller's writes --- *)
FrameNext ==
    \/ SvcConnect(FrameClients, FrameTransports) /\ UNCHANGED <<apiVars, sseVars>>
    \/ SvcDisconnect /\ UNCHANGED <<apiVars, sseVars>>
    \/ SvcReconnect(FrameClients, FrameTransports) /\ UNCHANGED <<apiVars, sseVars>>
    \/ SetHandlers(TRUE) /\ UNCHANGED <<apiVars, sseVars>>
    \/ \E c \in 1..Len(clients) :
          ReconnectTimer(c, FrameTransports) /\ UNCHANGED <<notifVars, apiVars, sseVars>>
    \/ \E t \in 1..Len(transports) : SvcOpenEvent(t) /\ UNCHANGED <<apiVars, sseVars>>
    \/ \E t \in 1..Len(transports) : SvcErrorEvent(t) /\ UNCHANGED <<apiVars, sseVars>>
    \/ \E t \in 1..Len(transports) : SvcCloseEvent(t) /\ UNCHANGED <<apiVars, sseVars>>
    \/ \E t \in 1..Len(transports) :
          NotificationMessage(t, Notification(arrivals + 1, 1), FrameArrivals)
          /\ UNCHANGED <<apiVars, sse, sources>>
    \/ \E id \in NotificationIds : MarkAsRead(id, FrameMarks) /\ UNCHANGED <<apiVars, sseVars>>
    \/ MarkAllAsRead(FrameMarks) /\ UNCHANGED <<apiVars, sseVars>>
    \/ GetNotifications /\ UNCHANGED <<apiVars, sseVars>>
    \/ \E i \in 1..FrameArrivals, v \in BOOLEAN :
          CallerWrite(i, v) /\ UNCHANGED <<apiVars, sseVars>>

FrameSpec == NotifInit /\ [][FrameNext]_vars

(* --------------- StreamSpec: one SSEClient and its streams ------------- *)
StreamInit ==
    /\ \E e \in BOOLEAN, o \in BOOLEAN, u \in BOOLEAN : sse = NewStream(e, o, u)
    /\ sources = <<>>
    /\ callbacks = <<>>
    /\ lastOp = Op("new", 0, "", "")
    /\ clients = <<>>
    /\ transports = <<>>
    /\ wire = <<>>
    /\ track = <<>>
    /\ svc = NoService
    /\ arrivals = 0
    /\ marks = 0
    /\ api = NoApi
    /\ requests = <<>>

\* the owner calls connect()
StreamConnect ==
    LET r == sseConnect(sse, sources) IN
    /\ Len(r.sources) <= MaxSources
    /\ sse' = r.sse
    /\ sources' = r.sources
    /\ lastOp' = Op("sse.connect", 0, IF sse.urlOk THEN "ok" ELSE "threw", "")
    /\ UNCHANGED callbacks

\* the owner calls close()
StreamClose ==
    LET r == sseClose(sse, sources) IN
    /\ sse' = r.sse
    /\ sources' = r.sources
    /\ lastOp' = Op("sse.close", 0, "", "")
    /\ UNCHANGED callbacks

\* stream s is established: open event (no event is dispatched on a stream
\* after close())
SourceOpen(s) ==
    /\ sources[s].readyState = "CONNECTING"
    /\ Len(callbacks) < MaxCalls
    /\ LET r == sseOnopen(sse, [sources EXCEPT ![s].readyState = "OPEN"])
       IN  sse' = r.sse /\ sources' = r.sources
    /\ callbacks' = IF sse.onOpen THEN Append(callbacks, [fn |-> "onOpen", arg |-> ""])
                ELSE callbacks
    /\ lastOp' = Op("sse.open", 0, "", "")

\* stream s loses or fails its connection: error event; the browser either
\* reconnects the same stream (Connecting) or gives up (Closed)
SourceError(s, fatal) ==
    /\ sources[s].readyState \in {"CONNECTING", "OPEN"}
    /\ Len(callbacks) < MaxCalls
    /\ LET r == sseOnerror(sse, [sources EXCEPT ![s].readyState =
                                    IF fatal THEN "CLOSED" ELSE "CONNECTING"])
       IN  sse' = r.sse /\ sources' = r.sources
    /\ callbacks' = IF sse.onError THEN Append(callbacks, [fn |-> "onError", arg |-> ""])
                ELSE callbacks
    /\ lastOp' = Op("sse.error", 0, "", "")

\* an event with event.data = text is received on open stream s
SourceMessage(s, text, throws) ==
    /\ sources[s].readyState = "OPEN"
    /\ Len(callbacks) < MaxCalls
    /\ callbacks' = callbacks \o sseOnmessage(text, throws)
    /\ lastOp' = Op("sse.message", 0, IF throws THEN "throws" ELSE "returns", text)
    /\ UNCHANGED <<sse, sources>>

StreamVarsOnly == UNCHANGED <<sockState, notifVars, apiVars>>

StreamNext ==
    \/ StreamConnect /\ StreamVarsOnly
    \/ StreamClose /\ StreamVarsOnly
    \/ \E s \in 1..Len(sources) : SourceOpen(s) /\ StreamVarsOnly
    \/ \E s \in 1..Len(sources), fatal \in BOOLEAN :
          SourceError(s, fatal) /\ StreamVarsOnly
    \/ \E s \in 1..Len(sources), text \in EventData, throws \in BOOLEAN :
          SourceMessage(s, text, throws) /\ StreamVarsOnly

StreamSpec == StreamInit /\ [][StreamNext]_vars

(* ------------------ ApiSpec: a client and its requests ----------------- *)
RetryDelayOpts == {0, 1000}

ApiInit ==
    /\ \E m \in 0..MaxRetriesOpt, d \in RetryDelayOpts :
          api = NewApiClient(m, d, "null")
    /\ requests = <<>>
    /\ sse = NoStream
    /\ sources = <<>>
    /\ callbacks = <<>>
    /\ lastOp = Op("new", 0, "", NoFailure)
    /\ clients = <<>>
    /\ transports = <<>>
    /\ wire = <<>>
    /\ track = <<>>
    /\ svc = NoService
    /\ arrivals = 0
    /\ marks = 0

\* the caller issues a request: first transmission
ApiCall(skipRetry, skipAuth) ==
    /\ Len(requests) < MaxRequests
    /\ requests' = Append(requests,
                     requestInterceptor(api, NewRequest(skipRetry, skipAuth)))
    /\ lastOp' = Op("call", Len(requests) + 1, "", NoFailure)
    /\ UNCHANGED api

\* the transmitted attempt of request r gets a 2xx response
ApiSuccess(r) ==
    /\ requests[r].state = "inflight"
    /\ requests' = [requests EXCEPT ![r].state = "resolved"]
    /\ lastOp' = Op("success", r, "", NoFailure)
    /\ UNCHANGED api

\* the transmitted attempt of request r fails with f
ApiFailure(r, f) ==
    /\ requests[r].state = "inflight"
    /\ requests' = [requests EXCEPT ![r] = onResponseError(api, @, f)]
    /\ lastOp' = Op("failure", r,
                    IF shouldRetry(api, requests[r], f) THEN "retry"
                    ELSE "throw", f)
    /\ UNCHANGED api

\* the backoff timer of request r fires (api.ts:99): the request is reissued
ApiRetry(r) ==
    /\ requests[r].state = "backoff"
    /\ requests' = [requests EXCEPT ![r] = reissue(api, @)]
    /\ lastOp' = Op("retry", r, "", NoFailure)
    /\ UNCHANGED api

ApiNext ==
    \/ \E sk \in BOOLEAN :
          ApiCall(sk, FALSE) /\ UNCHANGED <<sockState, notifVars, sseVars>>
    \/ \E r \in 1..Len(requests) :
          ApiSuccess(r) /\ UNCHANGED <<sockState, notifVars, sseVars>>
    \/ \E r \in 1..Len(requests), f \in Failures :
          ApiFailure(r, f) /\ UNCHANGED <<sockState, notifVars, sseVars>>
    \/ \E r \in 1..Len(requests) :
          ApiRetry(r) /\ UNCHANGED <<sockState, notifVars, sseVars>>

ApiSpec == ApiInit /\ [][ApiNext]_vars

\* The scheduling the retry claims assume: the transmitted attempt of request r
\* eventually completes (a response, a network failure or the timeout of
\* api.ts:61), and a backoff timer that was set (api.ts:99) eventually fires.
AttemptCompletes(r) ==
    /\ r <= Len(requests)
    /\ (ApiSuccess(r) \/ \E f \in Failures : ApiFailure(r, f))
    /\ UNCHANGED <<sockState, notifVars, sseVars>>

BackoffFires(r) ==
    /\ r <= Len(requests)
    /\ ApiRetry(r)
    /\ UNCHANGED <<sockState, notifVars, sseVars>>

ApiLiveSpec ==
    /\ ApiInit
    /\ [][ApiNext]_vars
    /\ \A r \in 1..MaxRequests :
          WF_vars(AttemptCompletes(r)) /\ WF_vars(BackoffFires(r))

(* ------------- AuthSpec: a client, its token and its requests ---------- *)
\* the caller calls setAuthToken(token) (api.ts:123-125)
SetAuthToken(token) ==
    /\ api' = [api EXCEPT !.authToken = token]
    /\ lastOp' = Op("setAuthToken", 0, token, NoFailure)
    /\ UNCHANGED requests

\* new ApiClient({maxRetries: 1, authToken}) : config.authToken is stored when
\* it is given (api.ts:55-57)
AuthInit ==
    /\ \E token \in Tokens : api = NewApiClient(1, 0, token)
    /\ requests = <<>>
    /\ sse = NoStream
    /\ sources = <<>>
    /\ callbacks = <<>>
    /\ lastOp = Op("new", 0, "", NoFailure)
    /\ clients = <<>>
    /\ transports = <<>>
    /\ wire = <<>>
    /\ track = <<>>
    /\ svc = NoService
    /\ arrivals = 0
    /\ marks = 0

AuthNext ==
    \/ \E sa \in BOOLEAN :
          ApiCall(FALSE, sa) /\ UNCHANGED <<sockState, notifVars, sseVars>>
    \/ \E token \in Tokens :
          SetAuthToken(token) /\ UNCHANGED <<sockState, notifVars, sseVars>>
    \/ \E r \in 1..Len(requests) :
          ApiSuccess(r) /\ UNCHANGED <<sockState, notifVars, sseVars>>
    \/ \E r \in 1..Len(requests), f \in Failures :
          ApiFailure(r, f) /\ UNCHANGED <<sockState, notifVars, sseVars>>
    \/ \E r \in 1..Len(requests) :
          ApiRetry(r) /\ UNCHANGED <<sockState, notifVars, sseVars>>

AuthSpec == AuthInit /\ [][AuthNext]_vars

(* ------------------------- claims: SocketSpec -------------------------- *)
\* a transport is live while it is Connecting or Open, or while its close
\* event is still to be delivered
Live(t) ==
    \/ transports[t].readyState \in {"CONNECTING", "OPEN"}
    \/ ~transports[t].closeDelivered

LiveTransports(c) ==
    {t \in 1..Len(transports) : transports[t].owner = c /\ Live(t)}

\* C1: at most one transport created by the client is live (Connecting or
\* Open, or still delivering events) in every reachable state.
C1_AtMostOneLiveTransport ==
    \A c \in 1..Len(clients) : Cardinality(LiveTransports(c)) <= 1

\* C2: once the number of consecutive failed connection attempts (no open in
\* between) has reached the configured reconnectAttempts, no reconnect is
\* scheduled.
C2_NoReconnectAfterMaxFailures ==
    \A c \in 1..Len(clients) :
        track[c].failed >= clients[c].optAttempts => ~clients[c].reconnectTimer

\* C3: close() is authoritative: from close() until the next explicit
\* connect() no reconnect timer is pending and no step creates a transport.
C3_CloseIsAuthoritative ==
    /\ [](\A c \in 1..Len(clients) :
            track[c].closed => ~clients[c].reconnectTimer)
    /\ [][\A c \in 1..Len(clients) :
            (track[c].closed /\ lastOp'.op # "connect")
                => Len(transports') = Len(transports)]_vars

\* C3 witness: after close() a close event was delivered while the reconnect
\* counter was above zero and below the maximum.
C3_Witness ==
    /\ track[1].closed
    /\ lastOp.op = "closeEvent"
    /\ clients[1].reconnectCount > 0
    /\ clients[1].reconnectCount < maxReconnectAttempts(clients[1])

\* C4: a connect() call made while the current transport is Open or
\* Connecting returns the outcome of the existing connection: resolved only
\* if it is open (pending while it is still opening).
C4_ConnectOutcomeOfExisting ==
    (lastOp.op = "connect" /\ lastOp.res = "resolved")
        => isConnected(clients[lastOp.c], transports)

\* C5 (as stated): send() returns false and transmits nothing when the state
\* is not Open, and once the state is Open a send() transmits exactly one
\* message and returns true.
C5_SendTrueIffOpen ==
    [][lastOp'.op = "send" =>
        IF isConnected(clients[lastOp'.c], transports)
        THEN lastOp'.res = "true" /\ Len(wire') = Len(wire) + 1
        ELSE lastOp'.res = "false" /\ wire' = wire]_vars

\* C5 (amended): send() returns false and transmits nothing when the state is
\* not Open or the payload cannot be serialized; in state Open a send() of a
\* serializable payload transmits exactly one message and returns true.
C5_SendFalseUnlessOpen ==
    [][lastOp'.op = "send" =>
        IF isConnected(clients[lastOp'.c], transports) /\ lastOp'.arg # "cyclic"
        THEN lastOp'.res = "true" /\ Len(wire') = Len(wire) + 1
        ELSE lastOp'.res = "false" /\ wire' = wire]_vars

\* C5 witness: a send() in state Connecting returned false after an earlier
\* send() in state Open had transmitted one message.
C5_Witness ==
    /\ lastOp.op = "send" /\ lastOp.res = "false" /\ lastOp.arg = "str"
    /\ clients[1].socket # 0
    /\ transports[clients[1].socket].readyState = "CONNECTING"
    /\ Len(wire) = 1

\* a transport that failed before opening: its error event has been
\* delivered, its close event is still to come
FailedToOpen(t) ==
    /\ transports[t].readyState = "CLOSED"
    /\ ~transports[t].closeDelivered
    /\ ~transports[t].wasOpen

\* C24: the promise of a connect() call that created a transport is resolved
\* when that transport has opened and rejected when that transport has
\* failed before opening (its error event was delivered), and a close event
\* that finds the client not closed by close() leaves a reconnect scheduled
\* unless the maximum is reached.
C24_ConnectPromiseSettles ==
    /\ \A t \in 1..Len(transports) :
          /\ transports[t].wasOpen <=> transports[t].promise = "resolved"
          /\ FailedToOpen(t) => transports[t].promise = "rejected"
    /\ (lastOp.op = "closeEvent" /\ ~clients[lastOp.c].manualClose) =>
          \/ clients[lastOp.c].reconnectTimer
          \/ clients[lastOp.c].reconnectCount >= maxReconnectAttempts(clients[lastOp.c])

\* C28: the reconnect counter, which counts the reconnect timers scheduled
\* since the last successful open, is at most the configured
\* reconnectAttempts in every reachable state, 0 included.
C28_CounterAtMostConfigured ==
    \A c \in 1..Len(clients) :
        clients[c].reconnectCount <= clients[c].optAttempts

\* C29: an open event sets the reconnect counter to zero; every other step
\* (close(), connect(), send(), on(), error and close events, timer firings)
\* leaves it unchanged or increases it by one, and it increases only in a
\* step that schedules a reconnect timer.
C29_CounterResetOnlyOnOpen ==
    [][\A c \in 1..Len(clients) :
          /\ (lastOp'.op = "open" /\ lastOp'.c = c) =>
                clients'[c].reconnectCount = 0
          /\ ~(lastOp'.op = "open" /\ lastOp'.c = c) =>
                /\ clients'[c].reconnectCount \in
                      {clients[c].reconnectCount, clients[c].reconnectCount + 1}
                /\ clients'[c].reconnectCount = clients[c].reconnectCount + 1 =>
                      /\ ~clients[c].reconnectTimer
                      /\ clients'[c].reconnectTimer]_vars

\* C29 witness: close() was called while the counter was 2, and left it at 2
C29_Witness ==
    /\ lastOp.op = "close"
    /\ clients[1].reconnectCount = 2
    /\ has(clients[1].messageHandlers, "message")

\* C30: a reconnect timer is pending only when close() has not been called
\* and the close event that scheduled it found the counter below the
\* configured maximum; a close event that finds the client not closed by
\* close() leaves a timer pending unless the maximum has been reached, and
\* the firing timer makes a connection attempt unless one is under way.
C30_ReconnectPolicy ==
    \A c \in 1..Len(clients) :
        /\ clients[c].reconnectTimer =>
              /\ ~clients[c].manualClose
              /\ clients[c].reconnectCount - 1 < clients[c].optAttempts
        /\ (lastOp.op = "closeEvent" /\ lastOp.c = c /\ ~clients[c].manualClose
                /\ ~clients[c].reconnectTimer) =>
              clients[c].reconnectCount >= clients[c].optAttempts
        /\ (lastOp.op = "timer" /\ lastOp.c = c) =>
              \/ lastOp.res = "pending" /\ clients[c].socket = Len(transports)
              \/ lastOp.res = "rejected" /\ ~clients[c].urlOk
              \/ lastOp.res = "resolved" /\ socketActive(clients[c], transports)

Superseded(t) ==
    /\ transports[t].readyState = "CLOSING"
    /\ clients[transports[t].owner].socket \notin {0, t}

\* C36: the close event and the error event of a transport that close() has
\* closed and a later connect() has superseded leave the fields of the
\* client as they were (connecting flag, reconnect counter, reconnect timer),
\* and no reconnect timer is pending while the current transport is open.
C36_StaleEventsIgnored ==
    [][/\ \A t \in 1..Len(transports) :
             (/\ Superseded(t)
              /\ lastOp'.op \in {"closeEvent", "error"}
              /\ transports'[t] # transports[t]) =>
                 clients'[transports[t].owner] = clients[transports[t].owner]
       /\ \A c \in 1..Len(clients') :
             (clients'[c].socket # 0
                 /\ transports'[clients'[c].socket].readyState = "OPEN") =>
                 ~clients'[c].reconnectTimer]_vars

(* ------------------------- claims: DispatchSpec ------------------------ *)
\* the type extracted at part_001:106 from a parsed payload
ExtractedType(p) == IF p.type = "absent" THEN "message" ELSE p.type

\* what a handler of the extracted type is to receive: the data field when
\* the payload has one, the whole parsed value otherwise
ExpectedArg(p) ==
    IF p.data # "absent" THEN <<"data", p.data>> ELSE <<"parsed", p>>

\* C14: a malformed (non-JSON) payload is passed as received to every handler
\* registered under "message", once each, and to no other handler, and no
\* error leaves the event handler.
C14_MalformedToMessageHandlers ==
    (lastOp.op = "message" /\ lastOp.arg.kind = "malformed") =>
        LET p == lastOp.arg
            hs == get(clients[lastOp.c].messageHandlers, "message")
        IN  /\ lastOp.res.calls =
                  [i \in 1..Len(hs) |->
                      [h |-> hs[i], under |-> "message", arg |-> <<"raw", p>>]]
            /\ ~lastOp.res.escaped

\* C15: for every successfully parsed payload every handler registered for
\* the extracted type (the type field, or "message" when absent) is invoked
\* with the data field whenever the payload has one, falsy values included,
\* and with the whole parsed value only when it has none.
C15_TypeHandlersGetData ==
    (lastOp.op = "message" /\ lastOp.arg.kind \in {"json", "null"}) =>
        LET p == lastOp.arg
            hs == get(clients[lastOp.c].messageHandlers, ExtractedType(p))
            calls == lastOp.res.calls
        IN  /\ Len(calls) >= Len(hs)
            /\ \A i \in 1..Len(hs) :
                  calls[i] = [h |-> hs[i], under |-> ExtractedType(p),
                              arg |-> ExpectedArg(p)]

\* C16: for a parsed envelope whose type is not "message", after the handlers
\* of the type every handler registered under "message" is invoked with the
\* whole parsed envelope, and nothing else is invoked; when the type is
\* "message" the "message" handlers are invoked once each, with data.
C16_GeneralChannel ==
    (lastOp.op = "message" /\ lastOp.arg.kind = "json") =>
        LET p == lastOp.arg
            reg == clients[lastOp.c].messageHandlers
            hsT == get(reg, ExtractedType(p))
            hsM == get(reg, "message")
            calls == lastOp.res.calls
        IN  IF ExtractedType(p) # "message"
            THEN /\ Len(calls) = Len(hsT) + Len(hsM)
                 /\ \A i \in 1..Len(hsT) :
                       /\ calls[i].h = hsT[i]
                       /\ calls[i].under = ExtractedType(p)
                 /\ \A j \in 1..Len(hsM) :
                       calls[Len(hsT) + j] =
                          [h |-> hsM[j], under |-> "message",
                           arg |-> <<"parsed", p>>]
            ELSE calls = [i \in 1..Len(hsM) |->
                            [h |-> hsM[i], under |-> "message",
                             arg |-> ExpectedArg(p)]]

\* C17: a call of the function returned by on(type, handler) removes that
\* handler from that type and changes nothing else; the entry of the type is
\* removed when its set becomes empty, so the registry never holds an empty
\* set; a call that finds the handler absent changes nothing.
C17_UnsubscribeRemovesExactlyThat ==
    /\ [](\A c \in 1..Len(clients) :
            \A t \in DOMAIN clients[c].messageHandlers :
                Len(clients[c].messageHandlers[t]) > 0)
    /\ [][lastOp'.op = "unsubscribe" =>
            LET c == lastOp'.c
                type == lastOp'.arg[1]
                handler == lastOp'.arg[2]
                old == clients[c].messageHandlers
                new == clients'[c].messageHandlers
            IN  /\ \A t \in Types \ {type} :
                      has(new, t) = has(old, t) /\ get(new, t) = get(old, t)
                /\ get(new, type) =
                      SelectSeq(get(old, type), LAMBDA h : h # handler)
                /\ has(new, type) <=> (get(new, type) # <<>>)
                /\ clients' = [clients EXCEPT ![c].messageHandlers = new]
                /\ transports' = transports
                /\ lastOp'.res = "absent" => clients' = clients]_vars

\* C17 witness: the unsubscribe function of on("foo", h1) removed the only
\* handler of "foo" while "message" kept its two handlers.
C17_Witness ==
    /\ lastOp.op = "unsubscribe"
    /\ lastOp.res = "removed"
    /\ lastOp.arg = <<"foo", "h1">>
    /\ ~has(clients[1].messageHandlers, "foo")
    /\ get(clients[1].messageHandlers, "message") = <<"h2", "h1">>

\* C37: in the dispatch of a well-formed JSON payload no handler is invoked
\* twice under the same type, no handler is given the raw string, and every
\* handler registered for the payload's type is invoked.
C37_OncePerHandler ==
    (lastOp.op = "message" /\ lastOp.arg.kind = "json") =>
        LET calls == lastOp.res.calls
            hsT == get(clients[lastOp.c].messageHandlers,
                       ExtractedType(lastOp.arg))
        IN  /\ \A i \in 1..Len(calls) : calls[i].arg[1] # "raw"
            /\ \A i, j \in 1..Len(calls) :
                  (calls[i].h = calls[j].h /\ calls[i].under = calls[j].under)
                      => i = j
            /\ \A k \in 1..Len(hsT) :
                  \E i \in 1..Len(calls) :
                      /\ calls[i].h = hsT[k]
                      /\ calls[i].under = ExtractedType(lastOp.arg)

(* -------------------------- claims: CacheSpec -------------------------- *)
CacheIds(cache) == {cache[i].id : i \in 1..Len(cache)}

MinId(cache) ==
    CHOOSE m \in CacheIds(cache) : \A k \in CacheIds(cache) : m <= k

\* C6: the cache never holds more than cacheLimit records, and a received
\* notification that finds the cache full removes exactly one record, the
\* least recently inserted one; otherwise nothing is removed.
C6_CacheBoundedEvictOldest ==
    /\ [](Len(svc.notificationCache) <= cacheLimit)
    /\ [][lastOp'.op = "notification" =>
            LET old == svc.notificationCache
                new == svc'.notificationCache
            IN  IF Len(old) = cacheLimit
                THEN /\ Len(new) = cacheLimit
                     /\ CacheIds(old) \ CacheIds(new) = {MinId(old)}
                     /\ CacheIds(new) \ CacheIds(old) = {arrivals'}
                ELSE /\ Len(new) = Len(old) + 1
                     /\ CacheIds(new) = CacheIds(old) \cup {arrivals'}]_vars

\* C6 witness: a notification was received by a full cache.
C6_Witness ==
    /\ lastOp.op = "notification"
    /\ arrivals > cacheLimit
    /\ Len(svc.notificationCache) = cacheLimit
    /\ marks > 0

Min(a, b) == IF a <= b THEN a ELSE b

\* C7: after n notifications arrived in order 1..n, getNotifications()
\* returns the last min(n, cacheLimit) of them, newest first.
C7_NewestFirst ==
    LET got == getNotifications(svc)
    IN  /\ Len(got) = Min(arrivals, cacheLimit)
        /\ \A i \in 1..Len(got) : got[i].id = arrivals - i + 1

\* C7 witness: 55 arrivals with capacity 50 give 55, 54, ..., 6.
C7_Witness ==
    /\ arrivals = 55
    /\ Len(getNotifications(svc)) = 50
    /\ getNotifications(svc)[1].id = 55
    /\ getNotifications(svc)[50].id = 6

(* ------------------------- claims: StatusSpec -------------------------- *)
\* no transport has an event still to deliver: each is open, or closed with
\* its close event dispatched
NoEventPending ==
    \A t \in 1..Len(transports) :
        \/ transports[t].readyState = "OPEN"
        \/ transports[t].readyState = "CLOSED" /\ transports[t].closeDelivered

\* C21: once no transport event is pending, the value most recently passed
\* to onStatusChange equals isConnected().
C21_StatusIsConnected ==
    (NoEventPending /\ svc.onStatusChange # "none") =>
        (svc.onStatusChange = "true" <=> svcIsConnected(svc, clients, transports))

\* the transport created by the connect() call that created client c, 0 when
\* the WebSocket constructor threw
FirstTransport(c) ==
    IF \E t \in 1..Len(transports) : transports[t].owner = c
    THEN CHOOSE t \in 1..Len(transports) :
            /\ transports[t].owner = c
            /\ \A u \in 1..(t - 1) : transports[u].owner # c
    ELSE 0

\* C23: the promise of a connect() call is rejected, and onError called, when
\* the socket could not be constructed or its first transport failed before
\* opening; it is resolved when that transport opened; it is settled once
\* the first attempt has completed.
C23_ConnectPromiseSettles ==
    \A c \in 1..Len(clients) :
        /\ ~clients[c].urlOk =>
              svc.connectPromise[c] = "rejected" /\ svc.onError >= 1
        /\ FirstTransport(c) # 0 =>
              LET t == transports[FirstTransport(c)]
              IN  /\ t.wasOpen => svc.connectPromise[c] = "resolved"
                  /\ (lastOp.op = "error" /\ lastOp.c = c /\ ~t.wasOpen) =>
                        svc.connectPromise[c] = "rejected" /\ svc.onError >= 1
                  /\ t.readyState = "CONNECTING" =>
                        svc.connectPromise[c] = "pending"

\* C22: reconnect() closes the previous client intentionally: from then on
\* that client is not the service's client, has no reconnect timer, has no
\* connecting or open transport and delivers no notification; the call leaves
\* the service with exactly one newly created client, on which the
\* notification handler is registered exactly once.
C22_ReconnectReplacesClient ==
    /\ \A c \in 1..Len(clients) :
          track[c].closed =>
              /\ c # svc.wsClient
              /\ clients[c].manualClose
              /\ ~clients[c].reconnectTimer
              /\ \A t \in 1..Len(transports) :
                    transports[t].owner = c =>
                        transports[t].readyState \notin {"CONNECTING", "OPEN"}
    /\ lastOp.op = "notification" => ~track[lastOp.c].closed
    /\ lastOp.op = "svc.reconnect" =>
          /\ Len(clients) = lastOp.res + 1
          /\ svc.wsClient = Len(clients)
          /\ lastOp.arg # 0 => track[lastOp.arg].closed
          /\ DOMAIN clients[svc.wsClient].messageHandlers = {"notification"}
          /\ clients[svc.wsClient].messageHandlers["notification"] =
                <<"handleNotification">>

\* C22 witness: after reconnect() on an open service the old transport's
\* close event was delivered, and a notification came in through the new
\* client
C22_Witness ==
    /\ Len(clients) = 2 /\ Len(transports) = 2
    /\ track[1].closed
    /\ transports[1].owner = 1
    /\ transports[1].wasOpen /\ transports[1].closeDelivered
    /\ svc.wsClient = 2
    /\ lastOp.op = "notification" /\ lastOp.c = 2
    /\ Len(svc.notificationCache) = 1

\* a client that is connecting, open or waiting on a reconnect timer
Alive(c) == socketActive(clients[c], transports) \/ clients[c].reconnectTimer

\* a client whose notification-typed messages reach handleNotification
DeliversIntoCache(c) ==
    "handleNotification" \in
        Range(get(clients[c].messageHandlers, "notification"))

\* C35: at most one socket client created by the service is alive and able
\* to deliver into the cache.
C35_AtMostOneAliveClient ==
    Cardinality({c \in 1..Len(clients) : Alive(c) /\ DeliversIntoCache(c)}) <= 1

(* -------------------------- claims: MarkSpec --------------------------- *)
\* the mark-read message of markAsRead(id) as the transport gets it
MarkReadMessage(id) == <<"json", "envelope", <<"mark-read", id, TRUE>>>>

\* C18: markAsRead(id) with a cached record of that id sets the read flag of
\* that record (the first with the id) and changes no other record, and sends
\* one mark-read message {notificationId: id, read: true} exactly when the
\* socket is open; with no such record the cache is unchanged and nothing is
\* sent. A second call with the same id would leave the cache as it is.
C18_MarkAsRead ==
    lastOp.op = "markAsRead" =>
        LET old == lastOp.res.cache
            new == svc.notificationCache
            id  == lastOp.arg
            hit == {i \in 1..Len(old) : old[i].id = id}
        IN  /\ hit # {} =>
                /\ \E i \in hit :
                      /\ \A j \in hit : i <= j
                      /\ new = [old EXCEPT ![i].read = TRUE]
                /\ lastOp.res.open => wire = Append(lastOp.res.wire, MarkReadMessage(id))
                /\ ~lastOp.res.open => wire = lastOp.res.wire
            /\ hit = {} => new = old /\ wire = lastOp.res.wire
            /\ markAsReadCache(new, id) = new

\* markAsRead(1) called a second time while the socket is open, with a record
\* of another id cached: the message went out twice, the cache did not change
C18_Witness ==
    /\ lastOp.op = "markAsRead"
    /\ lastOp.arg = 1
    /\ lastOp.res.open
    /\ \E i \in 1..Len(lastOp.res.cache) :
          lastOp.res.cache[i].id = 1 /\ lastOp.res.cache[i].read
    /\ \E i \in 1..Len(svc.notificationCache) :
          svc.notificationCache[i].id = 2 /\ ~svc.notificationCache[i].read
    /\ svc.notificationCache = lastOp.res.cache
    /\ wire = <<MarkReadMessage(1), MarkReadMessage(1)>>

\* the mark-all-read message of markAllAsRead() as the transport gets it
MarkAllReadMessage == <<"json", "envelope", <<"mark-all-read", TRUE>>>>

\* C19: after markAllAsRead() every cached record has read = true and
\* getUnreadCount() is 0, the cache is otherwise as before (order, length,
\* other fields), one mark-all-read message {allRead: true} was sent exactly
\* when the socket was open, and a second application would change nothing.
C19_MarkAllAsRead ==
    lastOp.op = "markAllAsRead" =>
        LET old == lastOp.res.cache
            new == svc.notificationCache
        IN  /\ Len(new) = Len(old)
            /\ \A i \in 1..Len(new) :
                  /\ new[i].read
                  /\ new[i] = [old[i] EXCEPT !.read = TRUE]
            /\ getUnreadCount(svc) = 0
            /\ lastOp.res.open => wire = Append(lastOp.res.wire, MarkAllReadMessage)
            /\ ~lastOp.res.open => wire = lastOp.res.wire
            /\ markAllAsReadCache(new) = new

\* C38: no two cached notifications have the same id, and after
\* markAsRead(id) no cached record with that id is unread.
C38_UniqueIds ==
    LET cache == svc.notificationCache
    IN  /\ \A i, j \in 1..Len(cache) :
              (cache[i].kind = "obj" /\ cache[j].kind = "obj"
                  /\ cache[i].id = cache[j].id) => i = j
        /\ lastOp.op = "markAsRead" =>
              \A i \in 1..Len(cache) :
                  cache[i].id = lastOp.arg => cache[i].read

(* -------------------------- claims: CopySpec --------------------------- *)
\* C20: nothing the caller does to the value getNotifications() returned
\* (removing an entry, assigning read on a returned record) changes what
\* getNotifications() and getUnreadCount() report afterwards.
C20_DefensiveCopy ==
    lastOp.op \in {"callerShift", "callerWrite"} =>
        LET was == [svc EXCEPT !.notificationCache = lastOp.res.cache]
        IN  /\ getNotifications(svc) = getNotifications(was)
            /\ getUnreadCount(svc) = getUnreadCount(was)

(* ------------------------- claims: ConfigSpec -------------------------- *)
\* C34: getInstance(config) on the initialized service whose socket is
\* connected has replaced the socket client exactly when config.wsUrl differs
\* from the wsUrl the service had; with the same wsUrl the client is the one
\* it was and is still connected.
C34_ReconnectIffUrlChanged ==
    (lastOp.op = "getInstance" /\ lastOp.arg # "none" /\ lastOp.res.connected) =>
        /\ (svc.wsClient # lastOp.res.wsClient) <=> (lastOp.arg # lastOp.res.wsUrl)
        /\ lastOp.arg = lastOp.res.wsUrl =>
              svcIsConnected(svc, clients, transports)

(* -------------------------- claims: FrameSpec -------------------------- *)
\* C39: a step that changes the cache (its contents, order or read flags) is
\* the handling of a received notification message, a markAsRead or a
\* markAllAsRead, and no record that was read is unread after it.
C39_CacheFrame ==
    [][/\ lastOp'.op \in {"message", "markAsRead", "markAllAsRead"}
       /\ \A i \in 1..Len(svc.notificationCache) :
             \A j \in 1..Len(svc'.notificationCache) :
                (/\ svc.notificationCache[i].read
                 /\ svc'.notificationCache[j].oid = svc.notificationCache[i].oid)
                    => svc'.notificationCache[j].read]_(svc.notificationCache)

(* ------------------------- claims: ReceiptSpec ------------------------- *)
\* the invocation of handlers.onNotification made last
LastCall == callbacks[Len(callbacks)]

\* C32: when a notification-typed message whose envelope has a data object
\* has been received with handlers.onNotification set, the handler has been
\* invoked exactly once for it, with that data object, and at the moment of
\* the invocation the object was already at the front of the cache, the
\* overflow was already evicted (at most cacheLimit records), and the cache
\* was the one getNotifications() shows after the message.
C32_CachedBeforeCallback ==
    (lastOp.op = "message" /\ svc.onNotification /\ lastOp.arg.kind = "obj") =>
        /\ Len(callbacks) = lastOp.res.calls + 1
        /\ LastCall.arg = lastOp.arg
        /\ LastCall.cache[1] = lastOp.arg
        /\ Len(LastCall.cache) <= cacheLimit
        /\ LastCall.cache = getNotifications(svc)

\* C32 witness: a notification has been received by a full cache with the
\* handler set: the oldest record is gone and the handler has been called
C32_Witness ==
    /\ lastOp.op = "message" /\ svc.onNotification
    /\ lastOp.arg.kind = "obj" /\ lastOp.arg.id # 0
    /\ Len(lastOp.res.cache) = cacheLimit
    /\ Len(svc.notificationCache) = cacheLimit
    /\ svc.notificationCache[cacheLimit] # lastOp.res.cache[cacheLimit]
    /\ Len(callbacks) > 0

\* whether a payload is a notification: an object with an id
Valid(d) == d.kind = "obj" /\ d.id # 0

\* C33: a received payload that is not valid (not an object, or without an
\* id) leaves the cache unchanged.
C33_InvalidPayloadNotCached ==
    (lastOp.op = "message" /\ ~Valid(lastOp.arg)) =>
        svc.notificationCache = lastOp.res.cache

(* ------------------------- claims: StreamSpec -------------------------- *)
\* C25: only a connect() call of the owner creates a stream; an open, error
\* or message event creates none, and an error event leaves the client's
\* fields as they are and only calls the error callback when one is set.
C25_NoReconnectLoop ==
    [][/\ lastOp'.op # "sse.connect" => Len(sources') = Len(sources)
       /\ lastOp'.op \in {"sse.open", "sse.error", "sse.message"} => sse' = sse
       /\ lastOp'.op = "sse.error" =>
             callbacks' = IF sse.onError
                          THEN Append(callbacks, [fn |-> "onError", arg |-> ""])
                          ELSE callbacks]_vars

\* C25 witness: the only stream of a client with an error callback failed for
\* good; the callback ran and the client still holds the closed stream
C25_Witness ==
    /\ lastOp.op = "sse.error"
    /\ Len(sources) = 1
    /\ sse.eventSource = 1
    /\ sources[1].readyState = "CLOSED"
    /\ Len(callbacks) > 0
    /\ callbacks[Len(callbacks)].fn = "onError"

\* C26: for each received event the message handler is invoked exactly once,
\* with the decoded value when event.data is valid JSON and with the raw
\* string otherwise.
C26_OneInvocationPerEvent ==
    [][lastOp'.op = "sse.message" =>
          callbacks' = Append(callbacks,
                              OnMessageCall(IF JSONparse(lastOp'.arg).ok
                                            THEN JSONparse(lastOp'.arg).value
                                            ELSE lastOp'.arg))]_vars

\* C27: at most one stream created by the client is not closed, and it is
\* the one the client holds; connect() closes the stream the client holds
\* before it creates the new one; after close() the handle is cleared and
\* isConnected() is false, and close() without a stream changes nothing.
C27_AtMostOneStream ==
    /\ [](\A s \in 1..Len(sources) :
            sources[s].readyState # "CLOSED" => sse.eventSource = s)
    /\ [][/\ (lastOp'.op = "sse.connect" /\ sse.eventSource # 0) =>
                sources'[sse.eventSource].readyState = "CLOSED"
          /\ (lastOp'.op = "sse.connect" /\ lastOp'.res = "ok") =>
                /\ Len(sources') = Len(sources) + 1
                /\ sse'.eventSource = Len(sources')
                /\ sources'[Len(sources')].readyState = "CONNECTING"
          /\ lastOp'.op = "sse.close" =>
                /\ sse'.eventSource = 0
                /\ ~sseIsConnected(sse', sources')
                /\ sse.eventSource = 0 => (sse' = sse /\ sources' = sources)
                /\ sse.eventSource # 0 =>
                      sources' = [sources EXCEPT
                                     ![sse.eventSource].readyState = "CLOSED"]
          /\ lastOp'.op \in {"sse.connect", "sse.close"} =>
                callbacks' = callbacks]_vars

\* C27 witness: connect() was called on a client holding an open stream: that
\* stream is closed and the client holds the new, connecting one
C27_Witness ==
    /\ lastOp.op = "sse.connect"
    /\ Len(sources) = 2
    /\ sources[1].readyState = "CLOSED"
    /\ sources[2].readyState = "CONNECTING"
    /\ sse.eventSource = 2
    /\ \E i \in 1..Len(callbacks) : callbacks[i].fn = "onMessage"

(* --------------------------- claims: ApiSpec --------------------------- *)
\* C8: the retry count of every request never exceeds the configured
\* maxRetries (0 included), so a request is transmitted at most
\* maxRetries + 1 times.
C8_RetryCountWithinConfiguredMax ==
    \A r \in 1..Len(requests) :
        /\ requests[r].retryCount <= api.given.maxRetries
        /\ requests[r].sent <= api.given.maxRetries + 1

\* C9: the delay scheduled before the k-th retry of a request is the client's
\* base delay times 2^k, k the retry count when the failure is handled: the
\* first delay is the base delay and every further delay doubles.
C9_BackoffDoubles ==
    \A r \in 1..Len(requests) :
        LET d == requests[r].delays
        IN  /\ Len(d) = requests[r].retryCount
            /\ Len(d) >= 1 => d[1] = api.config.retryDelay
            /\ \A k \in 1..(Len(d) - 1) : d[k + 1] = 2 * d[k]

\* C9 witness: with retryDelay = 1000 a request was retried three times, after
\* delays of 1000, 2000 and 4000.
C9_Witness ==
    /\ api.given.retryDelay = 1000
    /\ \E r \in 1..Len(requests) : requests[r].delays = <<1000, 2000, 4000>>

\* a connection/timeout failure, no response, or a status in 500..599
Transient(f) ==
    \/ f.kind \in {"timeout", "network"}
    \/ (f.kind = "http" /\ f.status \in 500..599)

\* C10: a failed attempt is retried iff skipRetry is not set, the retry count
\* is below the client's maximum and the failure is transient; otherwise the
\* failure is thrown to the caller, a 4xx response always, and a request that
\* has thrown is not transmitted again.
C10_RetryPolicy ==
    /\ [][lastOp'.op = "failure" =>
            LET r == lastOp'.c
                f == lastOp'.arg
                retried == requests'[r].state = "backoff"
            IN  /\ retried <=> (/\ ~requests[r].skipRetry
                                /\ requests[r].retryCount < api.config.maxRetries
                                /\ Transient(f))
                /\ ~retried => (/\ requests'[r].state = "rejected"
                                /\ requests'[r].error = f.status
                                /\ requests'[r].sent = requests[r].sent)
                /\ f.status \in 400..499 => ~retried]_vars
    /\ [][\A r \in 1..Len(requests) :
            requests[r].state = "rejected" => requests'[r] = requests[r]]_vars

\* C10 witness: one request waits for its retry after a 5xx response while
\* another, without skipRetry, was rejected with 400 after its single attempt.
C10_Witness ==
    \E r1, r2 \in 1..Len(requests) :
        /\ requests[r1].state = "backoff"
        /\ requests[r2].state = "rejected"
        /\ requests[r2].error = 400
        /\ requests[r2].sent = 1
        /\ ~requests[r2].skipRetry
        /\ lastOp.op = "failure"
        /\ lastOp = Op("failure", r1, "retry",
                       [kind |-> "http", code |-> "ERR_BAD_RESPONSE",
                        status |-> 599, body |-> "plain"])

\* C12: whenever a call fails to its caller the caller receives an ApiError:
\* with the status and the body of the response of the failed attempt when a
\* response was received, with status 0 when none was; nothing else is thrown,
\* and nothing is thrown to a call that has not failed.
C12_NormalizedApiError ==
    /\ [](\A r \in 1..Len(requests) :
            IF requests[r].state = "rejected"
            THEN requests[r].thrown.name = "ApiError"
            ELSE requests[r].thrown = NoError)
    /\ [][(lastOp'.op = "failure" /\ lastOp'.res = "throw") =>
            LET f == lastOp'.arg
                e == requests'[lastOp'.c].thrown
            IN  /\ requests'[lastOp'.c].state = "rejected"
                /\ f.kind = "http" => (e.status = f.status /\ e.data = f.body)
                /\ f.kind # "http" => (e.status = 0 /\ e.data = "undefined")]_vars

\* C12 witness: one call was rejected with the status and body of a 5xx
\* response after its retries were exhausted, another one, with skipRetry,
\* with status 0 after a network failure.
C12_Witness ==
    \E r1, r2 \in 1..Len(requests) :
        /\ requests[r1].state = "rejected"
        /\ requests[r1].retryCount = api.config.maxRetries
        /\ requests[r1].thrown =
              [name |-> "ApiError", message |-> "errorData.message",
               status |-> 599, data |-> "withMessage"]
        /\ requests[r2].state = "rejected"
        /\ requests[r2].skipRetry
        /\ requests[r2].thrown.status = 0
        /\ lastOp.op = "failure"
        /\ lastOp = Op("failure", r2, "throw",
                       [kind |-> "network", code |-> "ERR_NETWORK",
                        status |-> 0, body |-> "undefined"])

(* -------------------------- claims: AuthSpec --------------------------- *)
\* the header a transmission made while the stored token is tok must carry
HeaderFor(tok) == IF tok = "null" THEN NoHeader ELSE Bearer(tok)

\* C13: the latest transmission of every call without skipAuth (first attempt
\* or retry) carries the bearer header built from the token stored at the
\* moment of that transmission, and no header when the token was null then; a
\* call with skipAuth has no header injected.
C13_HeaderFromCurrentToken ==
    \A r \in 1..Len(requests) :
        IF requests[r].skipAuth
        THEN requests[r].authorization = NoHeader
        ELSE requests[r].authorization = HeaderFor(requests[r].tokenAtSend)

(* ------------------------- claims: ApiLiveSpec ------------------------- *)
Settled(r) ==
    r <= Len(requests) /\ requests[r].state \in {"resolved", "rejected"}

\* C11: when every transmitted attempt eventually completes and every backoff
\* timer eventually fires, every call eventually settles; it resolves on the
\* first successful response and is not transmitted again, or it is rejected
\* by a failure that is not retryable or that finds the retry count at the
\* client's maximum.
C11_EveryCallSettles ==
    /\ \A r \in 1..MaxRequests : (r <= Len(requests)) ~> Settled(r)
    /\ [][\A r \in 1..Len(requests) :
            /\ requests[r].state = "resolved" => requests'[r] = requests[r]
            /\ (requests'[r].state = "resolved" /\ requests[r].state # "resolved")
                  => /\ lastOp'.op = "success" /\ lastOp'.c = r
                     /\ requests[r].state = "inflight"
                     /\ requests'[r].sent = requests[r].sent
            /\ (requests'[r].state = "rejected" /\ requests[r].state # "rejected")
                  => /\ lastOp'.op = "failure" /\ lastOp'.c = r
                     /\ requests[r].state = "inflight"
                     /\ \/ requests[r].skipRetry
                        \/ ~Transient(lastOp'.arg)
                        \/ requests[r].retryCount = api.config.maxRetries]_vars

\* C11 witness: with a maximum of 3 and retryDelay 1000 a call was resolved by
\* its third transmission, after exactly two retries (delays 1000 and 2000).
C11_Witness ==
    /\ api.config.maxRetries = 3
    /\ \E r \in 1..Len(requests) :
          /\ requests[r].state = "resolved"
          /\ requests[r].retryCount = 2
          /\ requests[r].sent = 3
          /\ requests[r].delays = <<1000, 2000>>
          /\ lastOp.op = "success" /\ lastOp.c = r

====
